---------------------------- MODULE Spec2Model ----------------------------
(***************************************************************************)
(* Faebench: the word-guessing benchmark harness.                          *)
(*                                                                         *)
(*   Environment.py        the game state (board, word sets, guess logs)   *)
(*   Orchestrator.py       OllamaOrchestrator: step(), _finalize_step()    *)
(*   core/CrossTalk.py     the three-round consensus graph                 *)
(*                                                                         *)
(* Specifications:                                                         *)
(*   Spec       the Environment's operations on a constructed game         *)
(*   SpecSetup  Environment.__init__ / _setup_board from a word list       *)
(*   SpecOrch   OllamaOrchestrator.step() over its Environment             *)
(*   SpecCT     CrossTalkModule.execute(): the graph run in supersteps     *)
(***************************************************************************)
EXTENDS Integers, Sequences, FiniteSets, TLC

VARIABLES
    environment,        \* the Environment object (a record of its fields)
    last,               \* the last Environment call and what it returned
    resolved,           \* the words some call has returned as correct, neutral or opponent
    step_count,         \* OllamaOrchestrator.step_count
    orchestration_log,  \* OllamaOrchestrator.orchestration_log
    reward_log,         \* OllamaOrchestrator.reward_log
    step_ret,           \* what the last step() call did: returned or raised
    ct,                 \* the state of one CrossTalkModule.execute() run
    episode,            \* the run_episode() call in progress or ended last
    reward_module,      \* config_dict["reward_config"] and the RewardModule built from it
    decoded             \* a response text and what a parser made of it

vars == <<environment, last, resolved, step_count, orchestration_log, reward_log, step_ret, ct,
          episode, reward_module, decoded>>

(***************************************************************************)
(* Bounds of the model.                                                    *)
(***************************************************************************)
\* Environment._setup_board gives each team board_copy[:8] / [8:16]; the
\* model scales that allocation size down to TeamSize words per team.
TeamSize == 2
\* The longest guess list an action carries.
MaxGuesses == 2
\* The number of step() calls followed.
MaxSteps == 2

Words == {"a", "b", "c", "d"}
None == "None"

(***************************************************************************)
(* Python list helpers.                                                    *)
(***************************************************************************)
Min(a, b) == IF a < b THEN a ELSE b

\* w in xs
InList(w, xs) == \E i \in 1..Len(xs) : xs[i] = w

ListSet(xs) == {xs[i] : i \in 1..Len(xs)}

\* xs[lo:hi] for 0 <= lo, 0 <= hi (Python slice, 0-based, hi exclusive)
Slice(xs, lo, hi) ==
    LET h == Min(hi, Len(xs))
    IN  IF lo >= h THEN <<>> ELSE [i \in 1..(h - lo) |-> xs[lo + i]]

\* [w for w in xs if keep(w)]
RECURSIVE Filter(_, _)
Filter(xs, keep) ==
    IF xs = <<>> THEN <<>>
    ELSE IF Head(xs) \in keep THEN <<Head(xs)>> \o Filter(Tail(xs), keep)
    ELSE Filter(Tail(xs), keep)

\* [w for w in xs if w not in drop]
FilterOut(xs, drop) == Filter(xs, ListSet(xs) \ drop)

\* the outcomes of random.shuffle(xs): every permutation of xs
Shuffled(xs, p) == [i \in 1..Len(xs) |-> xs[p[i]]]
AllShuffles(n) == Permutations(1..n)

(***************************************************************************)
(* Environment.py                                                          *)
(***************************************************************************)
\* Environment._setup_board(word_list); p1 and p2 are the two shuffles
setup_board(teams, max_words, word_list, p1, p2) ==
    LET shuffled   == Shuffled(word_list, p1)
        board      == Slice(shuffled, 0, max_words)
        board_copy == Shuffled(board, p2)
        ws1        == Slice(board_copy, 0, TeamSize)
        ws2        == Slice(board_copy, TeamSize, 2 * TeamSize)
    IN  IF teams > 1
        THEN [board |-> board,
              word_sets |-> (1 :> ws1) @@ (2 :> ws2),
              neutral_words |-> FilterOut(board, ListSet(ws1) \cup ListSet(ws2))]
        ELSE [board |-> board,
              word_sets |-> (1 :> ws1),
              neutral_words |-> FilterOut(board, ListSet(ws1))]

\* Environment.__init__(config) with a word list file
NewEnvironment(teams, max_words, word_list, p1, p2) ==
    LET s == setup_board(teams, max_words, word_list, p1, p2)
    IN  [teams |-> teams, max_words |-> max_words,
         board |-> s.board, word_sets |-> s.word_sets,
         neutral_words |-> s.neutral_words,
         guessed_words |-> <<>>,
         guessed_words_log |-> [t \in 1..teams |-> <<>>],
         current_hint |-> <<>>]   \* the attribute is set by the first hint

\* Environment.get_player_state returning the word sets as well, as
\* get_master_state does
env_get_player_state_with_word_sets(e, team_id) ==
    [board |-> FilterOut(e.board, ListSet(e.guessed_words)),
     word_sets |-> e.word_sets,
     guessed_words_log |-> e.guessed_words_log[team_id]]

\* Environment.get_player_state(team_id): the dict it returns
env_get_player_state(e, team_id) ==
    [board |-> FilterOut(e.board, ListSet(e.guessed_words)),
     guessed_words_log |-> e.guessed_words_log[team_id]]

\* Environment.get_game_state(): a dict of the Environment's own lists
get_game_state(e) ==
    [board |-> e.board, word_sets |-> e.word_sets,
     neutral_words |-> e.neutral_words, guessed_words |-> e.guessed_words]

\* Environment.get_master_state(team_id): the dict it returns; <<>> when it
\* raises ValueError (a team without a word set)
env_get_master_state(e, team_id) ==
    IF team_id \notin DOMAIN e.word_sets /\ ~(e.teams = 1 /\ team_id = 1)
    THEN [raised |-> TRUE, board |-> <<>>, word_sets |-> <<>>,
          guessed_words |-> <<>>, guessed_words_log |-> <<>>]
    ELSE [raised |-> FALSE, board |-> e.board, word_sets |-> e.word_sets,
          guessed_words |-> e.guessed_words,
          guessed_words_log |-> IF team_id \in DOMAIN e.guessed_words_log
                                THEN e.guessed_words_log[team_id] ELSE <<>>]

\* the word sets in dict order (insertion order: team 1, then team 2)
TeamOrder(e) == IF 2 \in DOMAIN e.word_sets THEN <<1, 2>> ELSE <<1>>

\* remaining = [w for w in words if w not in self.guessed_words]
Remaining(e, words) == FilterOut(words, ListSet(e.guessed_words))

\* the first team, in the given order, with nothing remaining; -1 if none
RECURSIVE FirstComplete(_, _)
FirstComplete(e, order) ==
    IF order = <<>> THEN -1
    ELSE IF Len(Remaining(e, e.word_sets[Head(order)])) = 0 THEN Head(order)
    ELSE FirstComplete(e, Tail(order))

\* check_win counting, for each team, only the words that team guessed itself
check_win_own_log(e) ==
    \E t \in DOMAIN e.word_sets :
        ListSet(e.word_sets[t]) \subseteq {e.guessed_words_log[t][i].word :
                                             i \in 1..Len(e.guessed_words_log[t])}

\* check_win holding only while exactly one word set is complete
check_win_unique(e) ==
    Cardinality({t \in DOMAIN e.word_sets :
                   ListSet(e.word_sets[t]) \subseteq ListSet(e.guessed_words)}) = 1

\* Environment.check_win()
check_win(e) ==
    IF e.teams > 1
    THEN FirstComplete(e, TeamOrder(e)) # -1
    ELSE Len(Remaining(e, e.word_sets[1])) = 0

\* get_winner walking the teams from the highest id down
get_winner_descending(e) ==
    IF e.teams > 1
    THEN FirstComplete(e, IF 2 \in DOMAIN e.word_sets THEN <<2, 1>> ELSE <<1>>)
    ELSE IF Len(Remaining(e, e.word_sets[1])) = 0 THEN 1 ELSE -1

\* Environment.get_winner()
get_winner(e) ==
    IF e.teams > 1
    THEN FirstComplete(e, TeamOrder(e))
    ELSE IF Len(Remaining(e, e.word_sets[1])) = 0 THEN 1 ELSE -1

\* handle_master_action keeping a hint that is already recorded
handle_master_action_keeps_first(e, action) ==
    IF Len(e.current_hint) = 0
    THEN [e EXCEPT !.current_hint = <<[word |-> action.hint_word, number |-> action.hint_number]>>]
    ELSE e

\* Environment.handle_master_action(action): the new environment
\* handle_master_action refusing a hint word that is on the board
handle_master_action_rejects_board_word(e, action) ==
    IF InList(action.hint_word, e.board)
    THEN e
    ELSE [e EXCEPT !.current_hint = <<[word |-> action.hint_word, number |-> action.hint_number]>>]

handle_master_action(e, action) ==
    [e EXCEPT !.current_hint = <<[word |-> action.hint_word, number |-> action.hint_number]>>]

\* the loop body looking a guess up in the guessing team's own log only
resolve_guess_own_log(st, guess, team_id) ==
    IF \E i \in 1..Len(st.env.guessed_words_log[team_id]) :
           st.env.guessed_words_log[team_id][i].word = guess
    THEN [st EXCEPT !.results = Append(@, [word |-> guess, result |-> "already_guessed"])]
    ELSE IF ~InList(guess, st.env.board)
    THEN [st EXCEPT !.results = Append(@, [word |-> guess, result |-> "invalid"])]
    ELSE LET is_correct == team_id \in DOMAIN st.env.word_sets
                           /\ InList(guess, st.env.word_sets[team_id])
             result == IF is_correct THEN "correct"
                       ELSE IF InList(guess, st.env.neutral_words) THEN "neutral"
                       ELSE "opponent"
             guess_dict == [word |-> guess, result |-> result]
         IN  [env |-> [st.env EXCEPT !.guessed_words = Append(@, guess),
                                     !.guessed_words_log[team_id] = Append(@, guess_dict)],
              results |-> Append(st.results, guess_dict),
              correct_count |-> st.correct_count + (IF is_correct THEN 1 ELSE 0)]

\* the loop body without the board check and counting every logged guess
resolve_guess_no_board_check(st, guess, team_id) ==
    IF InList(guess, st.env.guessed_words)
    THEN [st EXCEPT !.results = Append(@, [word |-> guess, result |-> "already_guessed"])]
    ELSE LET is_correct == team_id \in DOMAIN st.env.word_sets
                           /\ InList(guess, st.env.word_sets[team_id])
             result == IF is_correct THEN "correct"
                       ELSE IF InList(guess, st.env.neutral_words) THEN "neutral"
                       ELSE "opponent"
             guess_dict == [word |-> guess, result |-> result]
         IN  [env |-> [st.env EXCEPT !.guessed_words = Append(@, guess),
                                     !.guessed_words_log[team_id] = Append(@, guess_dict)],
              results |-> Append(st.results, guess_dict),
              correct_count |-> st.correct_count + 1]

\* resolve_guess writing a guess that is not on the board into the team's log
resolve_guess_logs_invalid(st, guess, team_id) ==
    IF InList(guess, st.env.guessed_words)
    THEN [st EXCEPT !.results = Append(@, [word |-> guess, result |-> "already_guessed"])]
    ELSE IF ~InList(guess, st.env.board)
    THEN [st EXCEPT !.results = Append(@, [word |-> guess, result |-> "invalid"]),
                    !.env.guessed_words_log[team_id] =
                        Append(@, [word |-> guess, result |-> "invalid"])]
    ELSE LET is_correct == team_id \in DOMAIN st.env.word_sets
                           /\ InList(guess, st.env.word_sets[team_id])
             result == IF is_correct THEN "correct"
                       ELSE IF InList(guess, st.env.neutral_words) THEN "neutral"
                       ELSE "opponent"
             guess_dict == [word |-> guess, result |-> result]
         IN  [env |-> [st.env EXCEPT !.guessed_words = Append(@, guess),
                                     !.guessed_words_log[team_id] = Append(@, guess_dict)],
              results |-> Append(st.results, guess_dict),
              correct_count |-> st.correct_count + (IF is_correct THEN 1 ELSE 0)]

\* one pass of the loop body of handle_player_action; st holds the
\* environment, the results list and correct_count
resolve_guess(st, guess, team_id) ==
    IF InList(guess, st.env.guessed_words)
    THEN [st EXCEPT !.results = Append(@, [word |-> guess, result |-> "already_guessed"])]
    ELSE IF ~InList(guess, st.env.board)
    THEN [st EXCEPT !.results = Append(@, [word |-> guess, result |-> "invalid"])]
    ELSE LET is_correct == team_id \in DOMAIN st.env.word_sets
                           /\ InList(guess, st.env.word_sets[team_id])
             result == IF is_correct THEN "correct"
                       ELSE IF InList(guess, st.env.neutral_words) THEN "neutral"
                       ELSE "opponent"
             guess_dict == [word |-> guess, result |-> result]
         IN  [env |-> [st.env EXCEPT !.guessed_words = Append(@, guess),
                                     !.guessed_words_log[team_id] = Append(@, guess_dict)],
              results |-> Append(st.results, guess_dict),
              correct_count |-> st.correct_count + (IF is_correct THEN 1 ELSE 0)]

RECURSIVE resolve_all(_, _, _)
resolve_all(st, guesses, team_id) ==
    IF guesses = <<>> THEN st
    ELSE resolve_all(resolve_guess(st, Head(guesses), team_id), Tail(guesses), team_id)

\* handle_player_action starting the team's log afresh on every call
handle_player_action_fresh_log(e, guesses, team_id) ==
    LET st == resolve_all([env |-> [e EXCEPT !.guessed_words_log[team_id] = <<>>],
                           results |-> <<>>, correct_count |-> 0],
                          guesses, team_id)
    IN  [env |-> st.env,
         ret |-> [success |-> TRUE, results |-> st.results,
                  correct_count |-> st.correct_count,
                  game_over |-> check_win(st.env)]]

\* handle_player_action reading no more guesses than the hint number allows
handle_player_action_up_to_hint_number(e, guesses, team_id) ==
    LET allowed == IF Len(e.current_hint) = 0 THEN Len(guesses)
                   ELSE e.current_hint[1].number
        st == resolve_all([env |-> e, results |-> <<>>, correct_count |-> 0],
                          Slice(guesses, 0, allowed), team_id)
    IN  [env |-> st.env,
         ret |-> [success |-> TRUE, results |-> st.results,
                  correct_count |-> st.correct_count,
                  game_over |-> check_win(st.env)]]

\* handle_player_action taking the resolved words off the board
handle_player_action_removes_guessed(e, guesses, team_id) ==
    LET st == resolve_all([env |-> e, results |-> <<>>, correct_count |-> 0],
                          guesses, team_id)
    IN  [env |-> [st.env EXCEPT !.board = FilterOut(@, ListSet(st.env.guessed_words))],
         ret |-> [success |-> TRUE, results |-> st.results,
                  correct_count |-> st.correct_count,
                  game_over |-> check_win(st.env)]]

\* Environment.handle_player_action(action, team_id): the new environment
\* and the returned dict
handle_player_action(e, guesses, team_id) ==
    LET st == resolve_all([env |-> e, results |-> <<>>, correct_count |-> 0],
                          guesses, team_id)
    IN  [env |-> st.env,
         ret |-> [success |-> TRUE, results |-> st.results,
                  correct_count |-> st.correct_count,
                  game_over |-> check_win(st.env)]]

(***************************************************************************)
(* Rewards.py                                                              *)
(***************************************************************************)
FORMAT_PENALTY == -10
BOARD_WORD_USE_PENALTY == -8
VALID_HINT_REWARD == 5
CORRECT_GUESS_REWARD_WEIGHT == 5
NEUTRAL_GUESS_PENALTY_WEIGHT == 2
OPPONENT_GUESS_PENALTY_WEIGHT == 5
ALREADY_GUESSED_PENALTY == 12

\* d.get(key, {}) on a dict that is a record or the empty dict <<>>
HasKey(d, key) == key \in DOMAIN d

\* RewardConfig(): the reward_config dict with every option at its default
DefaultRewardConfig ==
    [FORMAT_PENALTY |-> -10, BOARD_WORD_USE_PENALTY |-> -8, VALID_HINT_REWARD |-> 5,
     CORRECT_GUESS_REWARD_WEIGHT |-> 5, NEUTRAL_GUESS_PENALTY_WEIGHT |-> 2,
     OPPONENT_GUESS_PENALTY_WEIGHT |-> 5]

\* RewardModule.__init__(reward_config) for a reward_config dict (the empty
\* dict stands for None as well): the attributes of the module
RewardModule(reward_config) ==
    [FORMAT_PENALTY |-> IF HasKey(reward_config, "FORMAT_PENALTY")
                        THEN reward_config["FORMAT_PENALTY"] ELSE FORMAT_PENALTY,
     BOARD_WORD_USE_PENALTY |-> BOARD_WORD_USE_PENALTY,
     VALID_HINT_REWARD |-> VALID_HINT_REWARD,
     CORRECT_GUESS_REWARD_WEIGHT |-> CORRECT_GUESS_REWARD_WEIGHT,
     NEUTRAL_GUESS_PENALTY_WEIGHT |-> NEUTRAL_GUESS_PENALTY_WEIGHT,
     OPPONENT_GUESS_PENALTY_WEIGHT |-> OPPONENT_GUESS_PENALTY_WEIGHT]

\* the reward of one entry of env_results["results"]
GuessReward(rm, res) ==
    IF res.result = "already_guessed" THEN 0 - ALREADY_GUESSED_PENALTY
    ELSE IF res.result = "correct" THEN rm.CORRECT_GUESS_REWARD_WEIGHT
    ELSE IF res.result = "neutral" THEN 0 - rm.NEUTRAL_GUESS_PENALTY_WEIGHT
    ELSE IF res.result = "opponent" THEN 0 - rm.OPPONENT_GUESS_PENALTY_WEIGHT
    ELSE 0

RECURSIVE SumRewards(_, _)
SumRewards(rm, results) ==
    IF results = <<>> THEN 0
    ELSE GuessReward(rm, Head(results)) + SumRewards(rm, Tail(results))

\* RewardModule.reward_function(event) of the module rm; board is
\* event["environment_state"]["board"]
reward_function(rm, event, board) ==
    LET master_result == event.master_result
        player_result == event.player_result
        master_reward ==
            IF ~HasKey(master_result, "success") THEN rm.FORMAT_PENALTY
            ELSE IF master_result.action.hint_word \in ListSet(board)
            THEN rm.BOARD_WORD_USE_PENALTY
            ELSE rm.VALID_HINT_REWARD
        player_reward ==
            IF ~HasKey(player_result, "success") THEN rm.FORMAT_PENALTY
            ELSE IF HasKey(player_result, "result")
            THEN SumRewards(rm, player_result.result.results)
            ELSE 0      \* player_result.get("result", {}): the key is absent
    IN  <<master_reward, player_reward>>

(***************************************************************************)
(* Spec: the Environment's operations on a constructed game.               *)
(***************************************************************************)
GameWordList == <<"a", "b", "c", "d">>
GameBoardSizes == {3}
Hints == {[hint_word |-> "h", hint_number |-> 1], [hint_word |-> "a", hint_number |-> 0]}
GuessLists == UNION {[1..n -> Words] : n \in 0..MaxGuesses}

NoCall == [op |-> "none", team |-> 0, guesses |-> <<>>, pre |-> <<>>, seen |-> {},
           word_list |-> <<>>, hint |-> <<>>, ret |-> <<>>,
           results |-> <<>>, correct_count |-> 0, game_over |-> FALSE]

Live == {"correct", "neutral", "opponent"}
LiveWords(results) == {results[i].word : i \in {j \in 1..Len(results) : results[j].result \in Live}}

NoStep == [called |-> FALSE, raised |-> FALSE, stage |-> "none", events |-> <<>>,
           pre |-> <<>>, scoring_raised |-> FALSE]

\* no run_episode() call has been made
NoEpisode == [status |-> "idle", limit |-> 0, success |-> FALSE, steps |-> 0,
              entry_count |-> 0]

\* no response text has been decoded
NoDecode == [op |-> "none", shape |-> "none", hint_word |-> "", hint_number |-> 0,
             guesses |-> <<>>, text |-> <<>>, out |-> <<>>]

OrchIdle ==
    /\ decoded = NoDecode
    /\ step_count = 0
    /\ orchestration_log = <<>>
    /\ reward_log = <<>>
    /\ step_ret = NoStep
    /\ episode = NoEpisode
    /\ reward_module = [config |-> DefaultRewardConfig,
                        table |-> RewardModule(DefaultRewardConfig)]
\* no consensus protocol has been executed
CTNone ==
    [status |-> "idle", num_models |-> 0, superstep |-> 0,
     todo |-> {}, running |-> {}, finished |-> {}, writes |-> {},
     round_1_responses |-> {}, round_2_responses |-> {},
     final_action |-> <<>>, messages |-> <<>>,
     calls |-> <<>>, judged_by |-> <<>>, result |-> <<>>,
     outputs |-> {}, prompts |-> {}, completed |-> <<>>,
     initial_prompt |-> <<>>]
CTIdle == ct = CTNone

Init ==
    /\ \E teams \in {1, 2}, max_words \in GameBoardSizes :
         \E p1 \in {[i \in 1..Len(GameWordList) |-> i]} :
           \E p2 \in {[i \in 1..Min(max_words, Len(GameWordList)) |-> i]} :
             environment = NewEnvironment(teams, max_words, GameWordList, p1, p2)
    /\ last = NoCall
    /\ resolved = {}
    /\ OrchIdle
    /\ CTIdle

\* environment.handle_master_action(action)
HandleMasterAction ==
    /\ \E action \in Hints :
         /\ environment' = handle_master_action(environment, action)
         /\ last' = [NoCall EXCEPT !.op = "master", !.pre = environment.guessed_words,
                                   !.seen = resolved, !.hint = <<action>>,
                                   !.ret = <<[success |-> TRUE,
                                              hint |-> handle_master_action(
                                                         environment, action).current_hint]>>]
    /\ UNCHANGED <<resolved, step_count, orchestration_log, reward_log, step_ret, ct, episode, reward_module, decoded>>

\* environment.handle_player_action(action, team_id)
HandlePlayerAction ==
    /\ \E team_id \in 1..environment.teams, guesses \in GuessLists :
         LET r == handle_player_action(environment, guesses, team_id)
         IN  /\ environment' = r.env
             /\ last' = [op |-> "player", team |-> team_id, guesses |-> guesses,
                         word_list |-> <<>>, hint |-> <<>>, ret |-> <<>>,
                         pre |-> environment.guessed_words,
                         seen |-> resolved,
                         results |-> r.ret.results,
                         correct_count |-> r.ret.correct_count,
                         game_over |-> r.ret.game_over]
             /\ resolved' = resolved \cup LiveWords(r.ret.results)
    /\ UNCHANGED <<step_count, orchestration_log, reward_log, step_ret, ct, episode, reward_module, decoded>>

\* environment.check_win()
CheckWin ==
    /\ last' = [NoCall EXCEPT !.op = "check_win", !.pre = environment.guessed_words,
                              !.seen = resolved,
                              !.game_over = check_win(environment)]
    /\ UNCHANGED <<environment, resolved, step_count, orchestration_log, reward_log,
                   step_ret, ct, episode, reward_module, decoded>>

\* environment.get_winner()
GetWinner ==
    /\ last' = [NoCall EXCEPT !.op = "get_winner", !.pre = environment.guessed_words,
                              !.seen = resolved,
                              !.ret = <<get_winner(environment)>>]
    /\ UNCHANGED <<environment, resolved, step_count, orchestration_log, reward_log,
                   step_ret, ct, episode, reward_module, decoded>>

\* environment.get_master_state(team_id), get_player_state(team_id) and
\* get_game_state(): the snapshots
Snapshot ==
    /\ \E team_id \in 1..environment.teams :
         \E view \in {env_get_master_state(environment, team_id),
                      env_get_player_state(environment, team_id),
                      get_game_state(environment)} :
           last' = [NoCall EXCEPT !.op = "snapshot", !.team = team_id,
                                  !.pre = environment.guessed_words,
                                  !.seen = resolved, !.ret = <<view>>]
    /\ UNCHANGED <<environment, resolved, step_count, orchestration_log, reward_log,
                   step_ret, ct, episode, reward_module, decoded>>

Next == HandleMasterAction \/ HandlePlayerAction \/ CheckWin \/ GetWinner \/ Snapshot

Spec == Init /\ [][Next]_vars

(***************************************************************************)
(* SpecSetup: Environment.__init__ from a word list file, under every      *)
(* outcome of the two shuffles.  reset() builds the Environment anew.      *)
(***************************************************************************)
\* the lines of the word list file (a file may repeat a line)
SetupLists == {<<>>, <<"a", "b">>, <<"a", "b", "c", "d", "e">>, <<"a", "b", "a", "c", "d">>,
               <<"a", "b", "c", "d", "e", "f">>}
SetupTeams == {1, 2, 3}
SetupBoardSizes == {1, 3, 4, 5, 6}
\* the outcomes of random.shuffle followed: all of them for lists of up to
\* five words, the rotations and the reversal for longer ones
SetupShuffles(n) ==
    IF n <= 5 THEN AllShuffles(n)
    ELSE {[i \in 1..n |-> ((i + k - 1) % n) + 1] : k \in 0..(n - 1)}
           \cup {[i \in 1..n |-> n + 1 - i]}

\* Environment.__init__ in test mode (test_flag, no word list file): the
\* board is not set up
BlankEnvironment(teams, max_words) ==
    [teams |-> teams, max_words |-> max_words,
     board |-> <<>>, word_sets |-> <<>>, neutral_words |-> <<>>,
     guessed_words |-> <<>>,
     guessed_words_log |-> [t \in 1..teams |-> <<>>],
     current_hint |-> <<>>]

InitSetup ==
    /\ environment = BlankEnvironment(1, 5)
    /\ last = NoCall
    /\ resolved = {}
    /\ OrchIdle
    /\ CTIdle

\* Environment(config) with a word list file, as the orchestrator's
\* __init__ and reset() build it; one construction is followed
Construct ==
    /\ last.op = "none"
    /\ \E word_list \in SetupLists, teams \in SetupTeams, max_words \in SetupBoardSizes :
         \E p1 \in SetupShuffles(Len(word_list)) :
           \E p2 \in SetupShuffles(Min(max_words, Len(word_list))) :
             /\ environment' = NewEnvironment(teams, max_words, word_list, p1, p2)
             /\ last' = [NoCall EXCEPT !.op = "setup", !.word_list = word_list]
    /\ UNCHANGED <<resolved, step_count, orchestration_log, reward_log, step_ret, ct, episode, reward_module, decoded>>

NextSetup == Construct

SpecSetup == InitSetup /\ [][NextSetup]_vars

\* the word sets and the neutral set partition the board words
Partition(e) ==
    /\ \A t, u \in DOMAIN e.word_sets :
         t # u => ListSet(e.word_sets[t]) \cap ListSet(e.word_sets[u]) = {}
    /\ \A t \in DOMAIN e.word_sets :
         ListSet(e.word_sets[t]) \cap ListSet(e.neutral_words) = {}
    /\ UNION {ListSet(e.word_sets[t]) : t \in DOMAIN e.word_sets}
         \cup ListSet(e.neutral_words) = ListSet(e.board)

NoRepeats(xs) == \A i, j \in 1..Len(xs) : xs[i] = xs[j] => i = j

C5_PartitionOfDistinctWords ==
    (last.op = "setup" /\ NoRepeats(last.word_list)) => Partition(environment)

(***************************************************************************)
(* Orchestrator.py: OllamaOrchestrator (OpenAIOrchestrator is the same     *)
(* code over another query function).                                      *)
(***************************************************************************)
\* A response text is a sequence of tokens: words of prose, the markers of
\* the result block, the keywords, and JSON objects.
Tok(str) == [kind |-> "text", s |-> str, guesses |-> <<>>]
\* a JSON object with a "guesses" key
Json(gs) == [kind |-> "json", s |-> "", guesses |-> gs]
\* a JSON object without a "guesses" key
JsonOther == [kind |-> "json_other", s |-> "", guesses |-> <<>>]
\* an object that holds "guesses" but is not valid JSON
JsonBroken == [kind |-> "json_broken", s |-> "", guesses |-> <<>>]
\* a JSON object with a "guesses" key and a member that holds braces (a
\* nested object, or a string with a brace in it)
JsonNested(gs) == [kind |-> "json_nested", s |-> "", guesses |-> gs]

\* re.IGNORECASE on the markers and keywords
Upper(str) ==
    CASE str = "hint:" -> "HINT:"
      [] str = "Hint:" -> "HINT:"
      [] str = "number:" -> "NUMBER:"
      [] str = "Number:" -> "NUMBER:"
      [] str = "<result>" -> "<RESULT>"
      [] str = "</result>" -> "</RESULT>"
      [] OTHER -> str
IsTok(tok, str) == tok.kind = "text" /\ Upper(tok.s) = str

HintWords == {"h", "a", "b", "x-1", "_2"}
Digits == {"0", "1", "2"}
NumVal(str) == CASE str = "0" -> 0 [] str = "1" -> 1 [] OTHER -> 2
Quotes == {"\"", "'"}
\* the token texts that are not made of letters, digits, _ and - only
NotWords == {"", "HINT:", "hint:", "Hint:", "NUMBER:", "number:", "Number:",
             "<RESULT>", "<result>", "</RESULT>", "</result>", "\"", "'",
             "Error:", "Ollama:"}
\* ["\']
IsQuote(tok) == tok.kind = "text" /\ tok.s \in Quotes
\* [\w-]+
IsWord(tok) == tok.kind = "text" /\ tok.s \notin NotWords
\* \d+
IsDigits(tok) == tok.kind = "text" /\ tok.s \in Digits
\* the token at position i of a text, the empty token past its ends
At(text, i) == IF i \in 1..Len(text) THEN text[i] ELSE Tok("")

\* re.search(r'<RESULT>(.*?)</RESULT>'): the text between the first opening
\* marker that a closing marker follows and the first closing marker after it
ResultText(text) ==
    LET opens == {i \in 1..Len(text) :
                    /\ IsTok(text[i], "<RESULT>")
                    /\ \E j \in (i + 1)..Len(text) : IsTok(text[j], "</RESULT>")}
    IN  IF opens = {} THEN text
        ELSE LET i == CHOOSE k \in opens : \A m \in opens : k <= m
                 j == CHOOSE k \in (i + 1)..Len(text) :
                        /\ IsTok(text[k], "</RESULT>")
                        /\ \A m \in (i + 1)..(k - 1) : ~IsTok(text[m], "</RESULT>")
             IN  Slice(text, i, j - 1)

\* where the pattern HINT:\s*["\']?([\w-]+)["\']?\s*NUMBER:\s*(\d+) tried at
\* token i has its word and its NUMBER: keyword
WordPos(text, i) == IF IsQuote(At(text, i + 1)) THEN i + 2 ELSE i + 1
KeyPos(text, i) ==
    IF IsQuote(At(text, WordPos(text, i) + 1))
    THEN WordPos(text, i) + 2 ELSE WordPos(text, i) + 1

\* the pattern without the optional quotes
HintMatch_no_quotes(text, i) ==
    /\ IsTok(At(text, i), "HINT:")
    /\ IsWord(At(text, i + 1))
    /\ IsTok(At(text, i + 2), "NUMBER:")
    /\ IsDigits(At(text, i + 3))

\* the pattern matches at token i
HintMatch(text, i) ==
    /\ IsTok(At(text, i), "HINT:")
    /\ IsWord(At(text, WordPos(text, i)))
    /\ IsTok(At(text, KeyPos(text, i)), "NUMBER:")
    /\ IsDigits(At(text, KeyPos(text, i) + 1))

\* _parse_master_response(response): <<action>>, or <<>> for None
parse_master_response(response) ==
    LET result_text == ResultText(response)
        hits == {i \in 1..Len(result_text) : HintMatch(result_text, i)}
    IN  IF hits = {} THEN <<>>
        ELSE LET i == CHOOSE k \in hits : \A m \in hits : k <= m
             IN  <<[hint_word |-> At(result_text, WordPos(result_text, i)).s,
                    hint_number |-> NumVal(At(result_text, KeyPos(result_text, i) + 1).s)]>>

\* _parse_player_response(response): <<action>>, or <<>> for None.  The
\* pattern \{[^{}]*"guesses"[^{}]*\} finds the objects without a brace inside
\* them; the fallback json.loads(response) reads a response that is one JSON
\* object and nothing else
parse_player_response(response) ==
    LET result_text == ResultText(response)
        hits == {i \in 1..Len(result_text) :
                   result_text[i].kind \in {"json", "json_broken"}}
    IN  IF hits # {}
        THEN LET i == CHOOSE k \in hits : \A m \in hits : k <= m
             IN  IF result_text[i].kind = "json"
                 THEN <<[guesses |-> result_text[i].guesses]>>
                 ELSE <<>>                       \* json.loads raises
        ELSE IF Len(response) = 1 /\ response[1].kind \in {"json_other", "json_nested"}
        THEN <<[guesses |-> response[1].guesses]>>  \* data.get("guesses", [])
        ELSE <<>>                                \* json.loads(response) raises

\* Environment.get_master_state(team_id = 1) raises ValueError
master_state_invalid(e) == 1 \notin DOMAIN e.word_sets /\ ~(e.teams = 1)

\* OllamaOrchestrator.get_master_state(): the hinter's view (of team 1)
get_master_state(e) ==
    LET all_team_words == UNION {ListSet(e.word_sets[t]) : t \in DOMAIN e.word_sets}
    IN  [team |-> 1,
         team_words |-> IF 1 \in DOMAIN e.word_sets THEN e.word_sets[1] ELSE <<>>,
         opponent_words |-> <<>>,
         neutral_words |-> FilterOut(e.board, all_team_words)]

\* OllamaOrchestrator.get_player_state(): the guesser's view; the dict of
\* Environment.get_player_state has no current_hint and no guessed_words key
get_player_state(e) ==
    [hint_word |-> "", hint_number |-> 0,
     board |-> FilterOut(e.board, ListSet(e.guessed_words)),
     guessed_words |-> <<>>]

\* OllamaOrchestrator.handle_master_action(action): the dict it returns
master_result_of(e1, action) ==
    [success |-> TRUE, action |-> action,
     environment_result |-> [success |-> TRUE, hint |-> e1.current_hint[1]]]

\* OllamaOrchestrator.handle_player_action(action): the dict it returns
player_result_of(ret, action) ==
    [success |-> TRUE, action |-> action, environment_result |-> ret]

\* what reading the record of step k in the log yields while the Environment
\* is env: its environment_state holds the Environment's list objects, not
\* copies, and is read through them
read_record(log, env, k) == [log[k] EXCEPT !.environment_state = get_game_state(env)]

\* a call or an assignment of step(), in the order made (team 1)
Event(call) == [call |-> call, team |-> 1]

\* _finalize_step letting an exception of the reward function through
finalize_step_scoring_uncaught(e, n, t, success, error_msg) ==
    LET log_event == [step |-> n, success |-> success, error |-> error_msg,
                      environment_state |-> "self.environment",
                      master_prompt |-> t.m_prompt, master_response |-> t.m_response,
                      master_action |-> t.m_action, master_result |-> t.master_result,
                      player_prompt |-> t.p_prompt, player_response |-> t.p_response,
                      player_action |-> t.player_action,
                      player_result |-> t.player_result,
                      game_over |-> check_win(e)]
    IN  [raised |-> t.scoring_raises, env |-> e, entry |-> <<log_event>>,
         reward |-> IF t.scoring_raises THEN <<>>
                    ELSE <<reward_function(reward_module.table, log_event,
                                           get_game_state(e).board)>>,
         events |-> t.events \o <<Event("record"), Event("score")>>,
         stage |-> t.stage, scoring_raised |-> t.scoring_raises]

\* OllamaOrchestrator._finalize_step: the log event and the reward; when the
\* reward function raises (t.scoring_raises) the reward is (0, 0)
finalize_step(e, n, t, success, error_msg) ==
    LET log_event == [step |-> n, success |-> success, error |-> error_msg,
                      environment_state |-> "self.environment",
                      master_prompt |-> t.m_prompt, master_response |-> t.m_response,
                      master_action |-> t.m_action, master_result |-> t.master_result,
                      player_prompt |-> t.p_prompt, player_response |-> t.p_response,
                      player_action |-> t.player_action,
                      player_result |-> t.player_result,
                      game_over |-> check_win(e)]
    IN  [raised |-> FALSE, env |-> e, entry |-> <<log_event>>,
         reward |-> IF t.scoring_raises THEN <<<<0, 0>>>>
                    ELSE <<reward_function(reward_module.table, log_event,
                                           get_game_state(e).board)>>,
         events |-> t.events \o <<Event("record"), Event("score")>>,
         stage |-> t.stage, scoring_raised |-> t.scoring_raises]

\* what one agent query does: it raises (with str(e) = msg) or returns text
Raises(msg) == [raises |-> TRUE, msg |-> msg, text |-> <<>>]
Returns(text) == [raises |-> FALSE, msg |-> "", text |-> text]

\* the local variables of step() at its start (lines 137-149)
StepLocals ==
    [m_prompt |-> <<>>, m_response |-> <<>>, m_action |-> <<>>,
     master_result |-> <<>>, p_prompt |-> <<>>, p_response |-> <<>>,
     player_action |-> <<>>, player_result |-> <<>>,
     events |-> <<>>, stage |-> "master_view", scoring_raises |-> FALSE]

\* step(), lines 179-180: the guesses are applied (for team 1, the default
\* team_id) and the turn succeeds
step_apply(e1, n, t, player_action) ==
    LET r == handle_player_action(e1, player_action.guesses, 1)
    IN  finalize_step(r.env, n,
                      [t EXCEPT !.player_result = player_result_of(r.ret, player_action),
                                !.events = Append(@, Event("handle_player_action")),
                                !.stage = "done"],
                      TRUE, "")

\* step(), lines 172-177: the guesser's text is decoded
step_player_parse(e1, n, t, text) ==
    LET player_action == parse_player_response(text)
        t5 == [t EXCEPT !.p_response = text, !.player_action = player_action,
                        !.stage = "player_parse"]
    IN  IF Len(player_action) = 0
        THEN finalize_step(e1, n, t5, FALSE, "Failed to parse player response")
        ELSE step_apply(e1, n, [t5 EXCEPT !.events = Append(@, Event("player_parse"))],
                        player_action[1])

\* step(), lines 168-170: the guesser's view is built and the guesser queried
step_player(e1, n, t, in) ==
    IF in.p_view_raises
    THEN finalize_step(e1, n, t, FALSE, in.p_view_msg)
    ELSE IF in.player.raises
    THEN finalize_step(e1, n,
                       [t EXCEPT !.p_prompt = <<get_player_state(e1)>>,
                                 !.events = Append(@, Event("player_query")),
                                 !.stage = "player_query"],
                       FALSE, in.player.msg)
    ELSE step_player_parse(e1, n,
                           [t EXCEPT !.p_prompt = <<get_player_state(e1)>>,
                                     !.events = Append(@, Event("player_query")),
                                     !.stage = "player_query"],
                           in.player.text)

\* step(), lines 161-166: the hint is recorded in the Environment
step_hint(e, n, t, in, m_action) ==
    LET e1 == handle_master_action(e, m_action)
    IN  step_player(e1, n,
                    [t EXCEPT !.master_result = master_result_of(e1, m_action),
                              !.events = Append(@, Event("handle_master_action")),
                              !.stage = "player_view"],
                    in)

\* step() returning on a hint that does not decode without going through
\* _finalize_step's reward bookkeeping
step_master_no_reward(e, n, t, in) ==
    IF in.master.raises
    THEN finalize_step(e, n, t, FALSE, in.master.msg)
    ELSE LET m_action == parse_master_response(in.master.text)
             t2 == [t EXCEPT !.m_response = in.master.text, !.m_action = m_action,
                             !.stage = "master_parse"]
         IN  IF Len(m_action) = 0
             THEN [finalize_step(e, n, t2, FALSE, "Failed to parse master response")
                     EXCEPT !.reward = <<>>]
             ELSE step_hint(e, n, [t2 EXCEPT !.events = Append(@, Event("master_parse"))],
                            in, m_action[1])

\* step(), lines 152-159: the hinter is queried and its text decoded
step_master(e, n, t, in) ==
    IF in.master.raises
    THEN finalize_step(e, n, t, FALSE, in.master.msg)
    ELSE LET m_action == parse_master_response(in.master.text)
             t2 == [t EXCEPT !.m_response = in.master.text, !.m_action = m_action,
                             !.stage = "master_parse"]
         IN  IF Len(m_action) = 0
             THEN finalize_step(e, n, t2, FALSE, "Failed to parse master response")
             ELSE step_hint(e, n, [t2 EXCEPT !.events = Append(@, Event("master_parse"))],
                            in, m_action[1])

\* the body of step() after step_count += 1.
\* get_master_state() builds MasterStateMessage without its guessed_words_log
\* field and get_player_state() passes PlayerStateMessage a guessed_words
\* keyword it does not have: with messages/Message.py as it stands both
\* constructors raise TypeError.  Whether a view is built or raises is an
\* input here (in.m_view_raises, in.p_view_raises), so that the turn logic
\* behind the views is covered as well.
step_body(e, n, in) ==
    IF in.m_view_raises \/ master_state_invalid(e)
    THEN \* line 137, before the try: the exception leaves step()
         [raised |-> TRUE, env |-> e, entry |-> <<>>, reward |-> <<>>,
          events |-> <<>>, stage |-> "master_view", scoring_raised |-> FALSE]
    ELSE step_master(e, n,
                     [StepLocals EXCEPT !.m_prompt = <<get_master_state(e)>>,
                                        !.events = <<Event("master_query")>>,
                                        !.stage = "master_query",
                                        !.scoring_raises = in.reward_raises],
                     in)

(***************************************************************************)
(* SpecOrch: OllamaOrchestrator.step() over its Environment.               *)
(***************************************************************************)
MasterTexts ==
    {<<Tok("HINT:"), Tok("h"), Tok("NUMBER:"), Tok("1")>>,
     <<Tok("ok"), Tok("<RESULT>"), Tok("hint:"), Tok("a"), Tok("number:"), Tok("2"),
       Tok("</RESULT>")>>,
     <<Tok("no"), Tok("hint"), Tok("here")>>}

PlayerTexts ==
    {<<Json(<<"a", "d">>)>>,
     <<Tok("ok"), Tok("<RESULT>"), Json(<<"b", "c", "b">>), Tok("</RESULT>")>>,
     <<JsonOther>>,
     <<Tok("so"), JsonBroken>>}

\* str(e) of a raised exception; it may be empty
ErrorTexts == {"", "name 'response' is not defined"}

\* what the HTTP request of one agent call does: the service replies with a
\* text, the request times out, or it fails with another RequestException
Reply(text) == [kind |-> "reply", text |-> text]
Timeout == [kind |-> "timeout", text |-> <<>>]
RequestError == [kind |-> "error", text |-> <<>>]
Requests(texts) == {Reply(x) : x \in texts} \cup {Timeout, RequestError}

\* a query that answers a failed request with an empty guess list
query_empty_guesses(request) ==
    IF request.kind = "reply" THEN request.text ELSE <<Json(<<>>)>>

\* OllamaModel._query (and _query_openai): the text of the reply, or the
\* sentinel "Error: Timeout" / "Error querying Ollama: <e>"
query(request) ==
    CASE request.kind = "timeout" -> <<Tok("Error:"), Tok("Timeout")>>
      [] request.kind = "error" ->
           <<Tok("Error"), Tok("querying"), Tok("Ollama:"), Tok("refused")>>
      [] OTHER -> request.text

\* OllamaModel.generate_master(prompt): the pair (action, raw response)
generate_master(request) ==
    [action |-> parse_master_response(query(request)), raw |-> query(request)]

MasterOutcomes ==
    {Raises(m) : m \in ErrorTexts} \cup {Returns(query(r)) : r \in Requests(MasterTexts)}
PlayerOutcomes ==
    {Raises(m) : m \in ErrorTexts} \cup {Returns(query(r)) : r \in Requests(PlayerTexts)}

StepInputs ==
    [m_view_raises : BOOLEAN, master : MasterOutcomes,
     p_view_raises : BOOLEAN, p_view_msg : {"unexpected keyword argument"},
     player : PlayerOutcomes, reward_raises : BOOLEAN]

InitOrch == Init

\* the state after a step() call whose body ended as o
StepEffect(n, o) ==
    /\ step_count' = n
    /\ environment' = o.env
    /\ orchestration_log' =
         IF Len(o.entry) = 0 THEN orchestration_log
         ELSE (n :> o.entry[1]) @@ orchestration_log
    /\ reward_log' =
         IF Len(o.reward) = 0 THEN reward_log
         ELSE (n :> o.reward[1]) @@ reward_log
    /\ step_ret' = [called |-> TRUE, raised |-> o.raised, stage |-> o.stage,
                    events |-> o.events, pre |-> <<environment>>,
                    scoring_raised |-> o.scoring_raised]

\* OllamaOrchestrator.step()
Step ==
    /\ step_count < MaxSteps
    /\ \E in \in StepInputs :
         StepEffect(step_count + 1, step_body(environment, step_count + 1, in))
    /\ UNCHANGED <<last, resolved, ct, episode, reward_module, decoded>>

NextOrch == Step

SpecOrch == InitOrch /\ [][NextOrch]_vars

(***************************************************************************)
(* SpecEpisode: OllamaOrchestrator.run_episode(limit) and reset().  One    *)
(* action per pass of the while loop: the loop test, then either a step()  *)
(* call and the test of its result, or the return after the loop.          *)
(***************************************************************************)
MaxLimit == 2

\* the loop test admitting a step when step_count equals limit
RunCondition_inclusive(e, count, limit) == ~check_win(e) /\ count <= limit

\* run_episode, line 192: the test of the while loop
RunCondition(e, count, limit) == ~check_win(e) /\ count < limit

\* run_episode going round the loop again whatever step() returned
episode_after_step_goes_on(ep, o) ==
    IF o.raised
    THEN [ep EXCEPT !.status = "raised", !.steps = @ + 1]
    ELSE [ep EXCEPT !.steps = @ + 1]

\* run_episode, lines 193-195: the call in progress after step() ended as o
episode_after_step(ep, o) ==
    IF o.raised
    THEN [ep EXCEPT !.status = "raised", !.steps = @ + 1]    \* the exception leaves run_episode
    ELSE IF ~o.entry[1].success
    THEN [ep EXCEPT !.status = "returned", !.success = FALSE, !.steps = @ + 1]
    ELSE [ep EXCEPT !.steps = @ + 1]

InitEpisode == Init

\* run_episode(limit) is called
RunEpisode ==
    /\ episode.status # "running"
    /\ \E limit \in 0..MaxLimit :
         episode' = [status |-> "running", limit |-> limit, success |-> FALSE,
                     steps |-> 0, entry_count |-> step_count]
    /\ UNCHANGED <<environment, last, resolved, step_count, orchestration_log,
                   reward_log, step_ret, ct, reward_module, decoded>>

\* the state after a pass of the loop whose step() call ended as o
EpisodeStepEffect(o) ==
    /\ StepEffect(step_count + 1, o)
    /\ episode' = episode_after_step(episode, o)

\* a pass of the loop: the test holds and step() is called
EpisodeStep ==
    /\ episode.status = "running"
    /\ RunCondition(environment, step_count, episode.limit)
    /\ \E in \in StepInputs :
         EpisodeStepEffect(step_body(environment, step_count + 1, in))
    /\ UNCHANGED <<last, resolved, ct, reward_module, decoded>>

\* the test of the loop fails: run_episode returns success = True
EpisodeReturn ==
    /\ episode.status = "running"
    /\ ~RunCondition(environment, step_count, episode.limit)
    /\ episode' = [episode EXCEPT !.status = "returned", !.success = TRUE]
    /\ UNCHANGED <<environment, last, resolved, step_count, orchestration_log,
                   reward_log, step_ret, ct, reward_module, decoded>>

\* reset(): a new Environment from the same configuration, empty logs
Reset ==
    /\ episode.status \in {"returned", "raised"}
    /\ environment' = NewEnvironment(environment.teams, environment.max_words, GameWordList,
                                     [i \in 1..Len(GameWordList) |-> i],
                                     [i \in 1..Min(environment.max_words, Len(GameWordList)) |-> i])
    /\ step_count' = 0
    /\ orchestration_log' = <<>>
    /\ reward_log' = <<>>
    /\ step_ret' = NoStep
    /\ episode' = NoEpisode
    /\ UNCHANGED <<last, resolved, ct, reward_module, decoded>>

NextEpisode == RunEpisode \/ EpisodeStep \/ EpisodeReturn \/ Reset

SpecEpisode == InitEpisode /\ [][NextEpisode]_vars

(***************************************************************************)
(* SpecRewards: a RewardModule is built from a reward configuration and    *)
(* scores events.                                                          *)
(***************************************************************************)
RewardOptions == DOMAIN DefaultRewardConfig

\* a value other than the default for each option
OtherRewardConfig ==
    [FORMAT_PENALTY |-> -7, BOARD_WORD_USE_PENALTY |-> -3, VALID_HINT_REWARD |-> 1,
     CORRECT_GUESS_REWARD_WEIGHT |-> 9, NEUTRAL_GUESS_PENALTY_WEIGHT |-> 4,
     OPPONENT_GUESS_PENALTY_WEIGHT |-> 6]

\* the reward_config dicts: any of the options set, the others left out
RewardConfigs == {[opt \in S |-> OtherRewardConfig[opt]] : S \in SUBSET RewardOptions}

\* the board of the scored events
ScoreBoard == <<"a", "b", "c">>

ScoreEvents == 1..4
\* the events scored: a turn whose hint did not decode, a turn whose hint is
\* a board word and whose guess did not decode, and completed turns whose
\* player_result holds the outcomes under "environment_result" (as
\* handle_player_action returns them) or under "result"
ScoreEvent(i) ==
    LET outcomes == [success |-> TRUE,
                     results |-> <<[word |-> "a", result |-> "correct"],
                                   [word |-> "c", result |-> "neutral"],
                                   [word |-> "b", result |-> "opponent"],
                                   [word |-> "a", result |-> "already_guessed"],
                                   [word |-> "z", result |-> "invalid"]>>,
                     correct_count |-> 1, game_over |-> FALSE]
        hint(w) == [success |-> TRUE, action |-> [hint_word |-> w, hint_number |-> 1],
                    environment_result |-> [success |-> TRUE,
                                            hint |-> [word |-> w, number |-> 1]]]
        action == [guesses |-> <<"a", "c", "b", "a", "z">>]
    IN  CASE i = 1 -> [master_result |-> <<>>, player_result |-> <<>>]
          [] i = 2 -> [master_result |-> hint("a"), player_result |-> <<>>]
          [] i = 3 -> [master_result |-> hint("h"),
                       player_result |-> [success |-> TRUE, action |-> action,
                                          environment_result |-> outcomes]]
          [] OTHER -> [master_result |-> hint("h"),
                       player_result |-> [success |-> TRUE, action |-> action,
                                          result |-> outcomes]]

InitRewards ==
    /\ environment = [teams |-> 1, max_words |-> 0, board |-> ScoreBoard,
                      word_sets |-> <<>>, neutral_words |-> <<>>,
                      guessed_words |-> <<>>, guessed_words_log |-> <<>>,
                      current_hint |-> <<>>]
    /\ last = NoCall
    /\ resolved = {}
    /\ OrchIdle
    /\ CTIdle

\* RewardModule(config_dict.get("reward_config"))
Configure ==
    /\ \E reward_config \in RewardConfigs :
         reward_module' = [config |-> reward_config, table |-> RewardModule(reward_config)]
    /\ UNCHANGED <<environment, last, resolved, step_count, orchestration_log,
                   reward_log, step_ret, ct, episode, decoded>>

\* reward_module.reward_function(event), the result kept in the reward log
Score ==
    /\ \E i \in ScoreEvents :
         /\ orchestration_log' = (1 :> ScoreEvent(i))
         /\ reward_log' = (1 :> reward_function(reward_module.table, ScoreEvent(i),
                                                get_game_state(environment).board))
    /\ UNCHANGED <<environment, last, resolved, step_count, step_ret, ct, episode,
                   reward_module, decoded>>

NextRewards == Configure \/ Score

SpecRewards == InitRewards /\ [][NextRewards]_vars

(***************************************************************************)
(* core/CrossTalk.py: the consensus protocol of one team's guessers, a     *)
(* LangGraph StateGraph.  The compiled graph runs in supersteps: the nodes *)
(* triggered by the previous superstep run concurrently, each on the state *)
(* as it was when the superstep began, and what they return is merged into *)
(* the state (by the reducers of AgentState) when all of them have ended.  *)
(***************************************************************************)
MaxModels == 2
\* the raw texts a guesser may answer: two that decode to different guess
\* lists and one that does not decode
Raws ==
    {<<Json(<<"a">>)>>,
     <<Tok("ok"), Tok("<RESULT>"), Json(<<"b">>), Tok("</RESULT>")>>,
     <<Tok("so"), JsonBroken>>}

\* BenchmarkAgent.generate_player_action as the agents implement it: the
\* pair (action, raw_response), the action None (<<>>) when raw does not
\* decode
generate_player_action(raw) == [action |-> parse_player_response(raw), raw |-> raw]

START == <<"START", 0>>
END == <<"END", 0>>
sync_1 == <<"sync_1", 0>>
judge == <<"judge", 0>>
model_r1(i) == <<"r1", i>>
model_r2(i) == <<"r2", i>>
Models(n) == 0..(n - 1)

\* the wiring with the round-2 nodes also entered from START
Edges_r2_from_start(n) ==
    {<<START, model_r1(i)>> : i \in Models(n)}
      \cup {<<START, model_r2(i)>> : i \in Models(n)}
      \cup {<<model_r1(i), sync_1>> : i \in Models(n)}
      \cup {<<sync_1, model_r2(i)>> : i \in Models(n)}
      \cup {<<model_r2(i), judge>> : i \in Models(n)}
      \cup {<<judge, END>>}

\* CrossTalkModule.__init__: the edges of the workflow
Edges(n) ==
    {<<START, model_r1(i)>> : i \in Models(n)}
      \cup {<<model_r1(i), sync_1>> : i \in Models(n)}
      \cup {<<sync_1, model_r2(i)>> : i \in Models(n)}
      \cup {<<model_r2(i), judge>> : i \in Models(n)}
      \cup {<<judge, END>>}

\* the nodes an edge leads to from one of the nodes in from
Triggered(n, from) == {e[2] : e \in {d \in Edges(n) : d[1] \in from}} \ {END}

\* a responses dict is a set of <<model_idx, raw>> entries, one per key
Keys(d) == {p[1] : p \in d}
\* merge_dicts(a, b) == {**a, **b}
merge_dicts(a, b) == {p \in a : p[1] \notin Keys(b)} \cup b

\* the keys of state a node reads before it calls its model: a key that is
\* missing raises KeyError
NodeReadsOk(c, v) ==
    CASE v[1] = "r2" -> Models(c.num_models) \subseteq Keys(c.round_1_responses)
      [] v[1] = "judge" -> Models(c.num_models) \subseteq Keys(c.round_2_responses)
      [] OTHER -> TRUE

\* range(total_models)
Range(n) == [k \in 1..n |-> k - 1]
\* d[i]["raw"] of a responses dict d
RawOf(d, i) == (CHOOSE p \in d : p[1] = i)[2].raw
\* the nodes of one round in the order in which they returned
CompletedOf(c, round) ==
    LET at == {k \in 1..Len(c.completed) : c.completed[k][1] = round}
        nth[k \in 0..Len(c.completed)] ==
            IF k = 0 THEN <<>>
            ELSE IF k \in at THEN Append(nth[k - 1], c.completed[k][2])
            ELSE nth[k - 1]
    IN  nth[Len(c.completed)]

\* the round-2 prompt listing every guesser's round-1 text as a teammate's,
\* the guesser's own included
cross_pollination_prompt_with_own(c, model_idx) ==
    LET others == Range(c.num_models)
    IN  <<[label |-> "previous_thought", number |-> model_idx + 1,
           raw |-> RawOf(c.round_1_responses, model_idx)]>>
          \o [k \in 1..Len(others) |->
                [label |-> "Teammate", number |-> others[k] + 1,
                 raw |-> RawOf(c.round_1_responses, others[k])]]

\* create_cross_pollination_node(model_idx, ...): what goes into the prompt:
\* the guesser's own round-1 text, then the teammates' round-1 texts in the
\* order of range(total_models)
cross_pollination_prompt(c, model_idx) ==
    LET others == FilterOut(Range(c.num_models), {model_idx})
    IN  <<[label |-> "previous_thought", number |-> model_idx + 1,
           raw |-> RawOf(c.round_1_responses, model_idx)]>>
          \o [k \in 1..Len(others) |->
                [label |-> "Teammate", number |-> others[k] + 1,
                 raw |-> RawOf(c.round_1_responses, others[k])]]

\* the judge's proposals listed in the order in which the round-2 calls
\* returned
judge_prompt_completion_order(c) ==
    LET order == CompletedOf(c, "r2")
    IN  [k \in 1..Len(order) |->
           [label |-> "Proposal", number |-> k,
            raw |-> RawOf(c.round_2_responses, order[k])]]

\* create_judge_node: what goes into the prompt: the round-2 texts in the
\* order of range(total_models)
judge_prompt(c) ==
    [k \in 1..c.num_models |->
       [label |-> "Proposal", number |-> k,
        raw |-> RawOf(c.round_2_responses, Range(c.num_models)[k])]]

\* a round-1 prompt that also lists the round-1 texts answered so far
independent_prompt_sees_answers(c, model_idx) ==
    LET order == CompletedOf(c, "r1")
    IN  <<[label |-> "initial_prompt", number |-> 0, raw |-> c.initial_prompt]>>
          \o [k \in 1..Len(order) |->
                [label |-> "Teammate", number |-> order[k] + 1,
                 raw |-> (CHOOSE o \in c.outputs : o[1] = model_r1(order[k]))[2]]]

\* create_independent_node: prompt = state["initial_prompt"]
independent_prompt(c, model_idx) ==
    <<[label |-> "initial_prompt", number |-> 0, raw |-> c.initial_prompt]>>

\* the prompt the node v gives its model
PromptOf(c, v) ==
    CASE v[1] = "r1" -> independent_prompt(c, v[2])
      [] v[1] = "r2" -> cross_pollination_prompt(c, v[2])
      [] v[1] = "judge" -> judge_prompt(c)
      [] OTHER -> <<>>

\* the judge's model taken from the front of the list
ModelOf_first(n, v) == IF v = judge THEN 0 ELSE v[2]

\* the index in player_models of the model the node v calls; the judge is
\* player_models[-1]
ModelOf(n, v) == IF v = judge THEN n - 1 ELSE v[2]

\* what the node v returns when its model answered raw
NodeWrites(v, raw) ==
    LET r == generate_player_action(raw)
    IN  CASE v[1] = "r1" -> {[channel |-> "round_1_responses", key |-> v[2],
                              action |-> r.action, raw |-> r.raw]}
          [] v[1] = "r2" -> {[channel |-> "round_2_responses", key |-> v[2],
                              action |-> r.action, raw |-> r.raw]}
          [] v[1] = "judge" -> {[channel |-> "final_action", key |-> 0,
                                 action |-> r.action, raw |-> r.raw]}
          [] OTHER -> {}     \* sync_1 returns the state it was given

\* the entries written to one responses channel in a superstep
ChannelWrites(writes, channel) ==
    {<<w.key, [action |-> w.action, raw |-> w.raw]>> :
        w \in {x \in writes : x.channel = channel}}

\* execute() taking the last guesser's round-2 action for the final action
execute_result_last_proposal(c, final_action) ==
    LET last_r2 == {p \in c.round_2_responses : p[1] = c.num_models - 1}
    IN  IF last_r2 = {} THEN final_action
        ELSE <<[action |-> (CHOOSE p \in last_r2 : TRUE)[2].action]>>

\* CrossTalkModule.execute, lines 169-185: what it returns for the final
\* state c whose final_action channel holds final_action
execute_result(c, final_action) == <<[action |-> final_action[1]]>>

\* the guesser prompts execute() is called with
InitialPrompts == {<<Tok("board"), Tok("one")>>, <<Tok("board"), Tok("two")>>}

InitCT ==
    /\ environment = [teams |-> 1, max_words |-> 0, board |-> <<>>,
                      word_sets |-> <<>>, neutral_words |-> <<>>,
                      guessed_words |-> <<>>, guessed_words_log |-> <<>>,
                      current_hint |-> <<>>]
    /\ last = NoCall
    /\ resolved = {}
    /\ OrchIdle
    /\ CTIdle

\* CrossTalkModule(player_models).execute(initial_prompt, hint_text): the
\* graph is entered
Execute ==
    /\ ct.status = "idle"
    /\ \E n \in 1..MaxModels, initial_prompt \in InitialPrompts :
         ct' = [CTNone EXCEPT !.status = "running", !.num_models = n,
                              !.superstep = 1, !.todo = Triggered(n, {START}),
                              !.calls = [i \in 1..n |-> 0],
                              !.initial_prompt = initial_prompt]
    /\ UNCHANGED <<environment, last, resolved, step_count, orchestration_log,
                   reward_log, step_ret, episode, reward_module, decoded>>

\* a node of the current superstep is started on a worker: it reads the
\* state and, unless that raises or it is sync_1, calls its model
StartNode ==
    /\ ct.status = "running"
    /\ \E v \in ct.todo :
         LET calling == v # sync_1 /\ NodeReadsOk(ct, v)
             model == ModelOf(ct.num_models, v) + 1
         IN  ct' = [ct EXCEPT !.todo = @ \ {v}, !.running = @ \cup {v},
                              !.calls = IF calling
                                        THEN [@ EXCEPT ![model] = @ + 1]
                                        ELSE @,
                              !.judged_by = IF calling /\ v = judge
                                            THEN <<model - 1>> ELSE @,
                              !.prompts = IF calling
                                          THEN @ \cup {<<v, PromptOf(ct, v)>>}
                                          ELSE @]
    /\ UNCHANGED <<environment, last, resolved, step_count, orchestration_log,
                   reward_log, step_ret, episode, reward_module, decoded>>

\* a running node returns: its model answered
FinishNode ==
    /\ ct.status = "running"
    /\ \E v \in ct.running :
         /\ NodeReadsOk(ct, v)
         /\ \E raw \in (IF v = sync_1 THEN {<<>>} ELSE Raws) :
              ct' = [ct EXCEPT !.running = @ \ {v}, !.finished = @ \cup {v},
                               !.writes = @ \cup NodeWrites(v, raw),
                               !.outputs = IF v = sync_1 THEN @
                                           ELSE @ \cup {<<v, raw>>},
                               !.completed = Append(@, v)]
    /\ UNCHANGED <<environment, last, resolved, step_count, orchestration_log,
                   reward_log, step_ret, episode, reward_module, decoded>>

\* a running node raises (KeyError on the state, or its model call fails):
\* invoke() raises and no further superstep is run
FailNode ==
    /\ ct.status = "running"
    /\ \E v \in ct.running \ {sync_1} :
         ct' = [ct EXCEPT !.running = @ \ {v}, !.status = "failed"]
    /\ UNCHANGED <<environment, last, resolved, step_count, orchestration_log,
                   reward_log, step_ret, episode, reward_module, decoded>>

\* all nodes of the superstep have returned: their writes are merged into the
\* state and the nodes they lead to form the next superstep
EndSuperstep ==
    /\ ct.status = "running"
    /\ ct.todo = {} /\ ct.running = {}
    /\ LET next_nodes == Triggered(ct.num_models, ct.finished)
           finals == {w \in ct.writes : w.channel = "final_action"}
           final_action == IF finals = {} THEN ct.final_action
                           ELSE <<(CHOOSE w \in finals : TRUE).action>>
       IN  ct' = [ct EXCEPT
                    !.round_1_responses =
                        merge_dicts(@, ChannelWrites(ct.writes, "round_1_responses")),
                    !.round_2_responses =
                        merge_dicts(@, ChannelWrites(ct.writes, "round_2_responses")),
                    !.final_action = final_action,
                    !.result =
                        IF next_nodes = {} /\ Len(final_action) = 1
                        THEN execute_result(ct, final_action) ELSE @,
                    !.messages =
                        IF finals = {} THEN @ ELSE Append(@, (CHOOSE w \in finals : TRUE).raw),
                    !.writes = {}, !.finished = {},
                    !.todo = next_nodes,
                    !.superstep = IF next_nodes = {} THEN @ ELSE @ + 1,
                    !.status = IF next_nodes # {} THEN "running"
                               ELSE IF Len(final_action) = 1 THEN "done"
                               ELSE "failed"]     \* final_state["final_action"]
    /\ UNCHANGED <<environment, last, resolved, step_count, orchestration_log,
                   reward_log, step_ret, episode, reward_module, decoded>>

NextCT == Execute \/ StartNode \/ FinishNode \/ FailNode \/ EndSuperstep

SpecCT == InitCT /\ [][NextCT]_vars

(***************************************************************************)
(* Claims about step() (checked under SpecOrch).                           *)
(***************************************************************************)
\* the step() call that ended last returned a turn record
Returned == step_ret.called /\ ~step_ret.raised
\* the turn record of the step() call that ended last
TurnRecord == orchestration_log[step_count]
\* the Environment as it was when the step() call that ended last began
Before == step_ret.pre[1]
GuessLogsUnchanged ==
    /\ environment.guessed_words = Before.guessed_words
    /\ environment.guessed_words_log = Before.guessed_words_log

\* C6: step() never raises; when any stage of the turn raises, the exception
\* is caught and the turn ends with a turn record of this step that has
\* success = false and a non-empty error string.
C6_StepNeverRaises ==
    step_ret.called =>
        /\ ~step_ret.raised
        /\ step_count \in DOMAIN orchestration_log
        /\ (step_ret.stage # "done" =>
              /\ TurnRecord.success = FALSE
              /\ TurnRecord.error # "")

\* C7: when a turn fails after its hint was recorded (the guesser's view or
\* call raises, or the guess text does not decode), the hint of this turn
\* stays recorded, the global and per-team guess logs are as before the turn,
\* and the turn record has success = false.
C7_PartialTurn ==
    (Returned /\ step_ret.stage \in {"player_view", "player_query", "player_parse"}) =>
        /\ Len(TurnRecord.master_action) = 1
        /\ environment.current_hint =
             <<[word |-> TurnRecord.master_action[1].hint_word,
                number |-> TurnRecord.master_action[1].hint_number]>>
        /\ GuessLogsUnchanged
        /\ TurnRecord.success = FALSE

\* a second turn whose guesser call raised after a hint other than the one
\* recorded before was recorded, with guesses already in the logs
C7_Witness ==
    /\ Returned
    /\ step_ret.stage = "player_query"
    /\ step_count = 2
    /\ Len(Before.current_hint) = 1
    /\ Before.current_hint # environment.current_hint
    /\ Len(Before.guessed_words) > 0

\* C8: when the hinter's text does not decode, no guesser is queried in the
\* turn, the recorded hint and the guess logs are as before the turn, the
\* turn record has success = false and no decoded hint action, and a reward
\* entry is recorded for the step.
C8_HintDecodeFailed ==
    (Returned /\ step_ret.stage = "master_parse") =>
        /\ \A i \in 1..Len(step_ret.events) : step_ret.events[i].call # "player_query"
        /\ environment.current_hint = Before.current_hint
        /\ GuessLogsUnchanged
        /\ TurnRecord.success = FALSE
        /\ TurnRecord.master_action = <<>>
        /\ step_count \in DOMAIN reward_log

\* a turn whose hinter text did not decode, after a turn that recorded a hint
\* and guesses
C8_Witness ==
    /\ Returned
    /\ step_ret.stage = "master_parse"
    /\ Len(Before.current_hint) = 1
    /\ Len(Before.guessed_words) > 0
    /\ step_count \in DOMAIN reward_log

\* the teams of the calls of one kind made in a step, in the order made
RECURSIVE TeamsQueried(_, _)
TeamsQueried(events, call) ==
    IF events = <<>> THEN <<>>
    ELSE IF Head(events).call = call
    THEN <<Head(events).team>> \o TeamsQueried(Tail(events), call)
    ELSE TeamsQueried(Tail(events), call)

\* C9: a step() call that runs to its end has run one turn (hint, then
\* guesses) for every configured team, in ascending team-id order, and has
\* written one log entry for its step number.
C9_EveryTeamPlays ==
    (Returned /\ step_ret.stage = "done") =>
        /\ TeamsQueried(step_ret.events, "master_query") = [t \in 1..environment.teams |-> t]
        /\ TeamsQueried(step_ret.events, "player_query") = [t \in 1..environment.teams |-> t]
        /\ step_count \in DOMAIN orchestration_log

(***************************************************************************)
(* Claims about scoring (checked under SpecOrch and SpecRewards).          *)
(***************************************************************************)
\* the number of outcomes of one kind in a list of guess results
RECURSIVE CountOutcomes(_, _)
CountOutcomes(results, kind) ==
    IF results = <<>> THEN 0
    ELSE (IF Head(results).result = kind THEN 1 ELSE 0) + CountOutcomes(Tail(results), kind)

\* the step() call that ended last returned and its turn was scored
Scored == Returned /\ ~step_ret.scoring_raised

\* C16: the guesser reward recorded for a turn is FORMAT_PENALTY when the
\* guess action did not decode or was not applied, and otherwise the weighted
\* sum over the outcomes of the guesses applied in the turn: the weight of
\* correct, minus those of neutral and opponent, minus 12 for each
\* already_guessed, invalid outcomes counting nothing.
C16_GuesserReward ==
    (Scored /\ step_ret.stage \in {"player_view", "player_query", "player_parse", "done"}) =>
        reward_log[step_count][2] =
            IF step_ret.stage = "done"
            THEN LET results == TurnRecord.player_result.environment_result.results
                 IN  CORRECT_GUESS_REWARD_WEIGHT * CountOutcomes(results, "correct")
                       - NEUTRAL_GUESS_PENALTY_WEIGHT * CountOutcomes(results, "neutral")
                       - OPPONENT_GUESS_PENALTY_WEIGHT * CountOutcomes(results, "opponent")
                       - ALREADY_GUESSED_PENALTY * CountOutcomes(results, "already_guessed")
            ELSE FORMAT_PENALTY

\* C17: the hinter reward recorded for a turn is FORMAT_PENALTY when the hint
\* did not decode or was not applied, BOARD_WORD_USE_PENALTY when the applied
\* hint word is a board word that is unguessed (before the turn and after
\* it), and VALID_HINT_REWARD when it is no board word or a board word
\* guessed before the turn.
C17_HinterReward ==
    Scored =>
        IF step_ret.stage \in {"master_query", "master_parse"}
        THEN reward_log[step_count][1] = FORMAT_PENALTY
        ELSE LET w == TurnRecord.master_action[1].hint_word
                 on_board == InList(w, environment.board)
                 guessed_before == InList(w, Before.guessed_words)
                 guessed_after == InList(w, environment.guessed_words)
             IN  /\ (on_board /\ ~guessed_before /\ ~guessed_after) =>
                        reward_log[step_count][1] = BOARD_WORD_USE_PENALTY
                 /\ (~on_board \/ guessed_before) =>
                        reward_log[step_count][1] = VALID_HINT_REWARD

\* C18: when the reward function raises for a turn, the reward recorded for
\* the turn is (0, 0), the turn record is written to the log all the same,
\* and step() returns.
C18_ScoringErrorSwallowed ==
    (step_ret.called /\ step_ret.scoring_raised) =>
        /\ ~step_ret.raised
        /\ step_count \in DOMAIN reward_log
        /\ reward_log[step_count] = <<0, 0>>
        /\ step_count \in DOMAIN orchestration_log
        /\ TurnRecord.step = step_count

\* the reward function raised on a completed turn
C18_Witness ==
    /\ step_ret.called
    /\ step_ret.scoring_raised
    /\ step_ret.stage = "done"
    /\ TurnRecord.success = TRUE

\* the table the reward configuration asks for: each option as configured,
\* the default where it is not set
ConfiguredTable(reward_config) ==
    [opt \in RewardOptions |->
        IF HasKey(reward_config, opt) THEN reward_config[opt] ELSE DefaultRewardConfig[opt]]

\* C19: each of the six reward options is taken from the reward configuration
\* when set there, is the default (-10, -8, 5, 5, 2, 5) when not, and is the
\* value scoring then uses.
C19_OptionsFromConfig ==
    /\ \A opt \in RewardOptions :
         reward_module.table[opt] = ConfiguredTable(reward_module.config)[opt]
    /\ 1 \in DOMAIN reward_log =>
         reward_log[1] = reward_function(ConfiguredTable(reward_module.config),
                                         orchestration_log[1], ScoreBoard)

\* C20: a turn record in the orchestration log never changes: whatever steps
\* follow, reading the record of step k yields the game-state snapshot, the
\* actions and the results it held when it was written.
C20_RecordsImmutable ==
    [][\A k \in DOMAIN orchestration_log :
          k \in DOMAIN orchestration_log' =>
              read_record(orchestration_log', environment', k)
                = read_record(orchestration_log, environment, k)]_vars

(***************************************************************************)
(* Claims about run_episode (checked under SpecEpisode).                   *)
(***************************************************************************)
\* C14: run_episode stops right after the first step whose record has
\* success = false, making no further step and returning success = false; a
\* call that returns otherwise (at a win or at the step limit) returns
\* success = true.
C14_StopOnFailure ==
    /\ (episode.status = "running" /\ episode.steps > 0) =>
          /\ step_count \in DOMAIN orchestration_log
          /\ orchestration_log[step_count].success = TRUE
    /\ episode.status = "returned" =>
          IF episode.steps > 0 /\ orchestration_log[step_count].success = FALSE
          THEN episode.success = FALSE
          ELSE /\ episode.success = TRUE
               /\ check_win(environment) \/ step_count >= episode.limit

\* a call that returned success = false after a failed step although neither
\* a win nor the limit was reached
C14_Witness ==
    /\ episode.status = "returned"
    /\ episode.success = FALSE
    /\ episode.steps >= 1
    /\ orchestration_log[step_count].success = FALSE
    /\ ~check_win(environment)
    /\ step_count < episode.limit

\* C15: run_episode(limit) starts a step only where check_win() is false and
\* step_count is below limit; every step it makes, failed or not, counts one
\* towards the limit, so that the call makes no more steps than the limit
\* leaves room for and step_count does not pass limit.
C15_EpisodeTerminates ==
    [][episode'.steps > episode.steps =>
          /\ ~check_win(environment)
          /\ step_count < episode.limit
          /\ step_count' = step_count + 1
          /\ step_count' <= episode'.limit
          /\ episode'.steps <= episode'.limit - episode'.entry_count]_vars

\* a call ended by a failed step that was the last one the limit allowed
C15_Witness ==
    /\ episode.status = "returned"
    /\ episode.success = FALSE
    /\ episode.limit >= 2
    /\ episode.steps = episode.limit
    /\ step_count = episode.limit

(***************************************************************************)
(* Claims about the consensus protocol (checked under SpecCT).             *)
(***************************************************************************)
\* the nodes whose function has been entered in the current superstep
Started == ct.running \cup ct.finished

\* C10: under every interleaving of the guesser calls, no guesser's round-2
\* node starts before the round-1 results of all guessers are stored in the
\* state, and the judge does not start before the round-2 results of all
\* guessers are stored.
C10_Barriers ==
    \A v \in Started :
        /\ v[1] = "r2" => Keys(ct.round_1_responses) = Models(ct.num_models)
        /\ v[1] = "judge" => Keys(ct.round_2_responses) = Models(ct.num_models)

\* the judge's call is in flight for a team of several guessers, all of whose
\* round-1 and round-2 results are stored
C10_Witness ==
    /\ ct.status = "running"
    /\ ct.num_models >= 2
    /\ judge \in ct.running
    /\ Keys(ct.round_1_responses) = Models(ct.num_models)
    /\ Keys(ct.round_2_responses) = Models(ct.num_models)

\* the stored proposals of both rounds
Proposals == ct.round_1_responses \cup ct.round_2_responses

\* C11: the action the consensus protocol returns is the action decoded from
\* the judge's phase-3 output, and the judge is the last guesser of the list,
\* whatever the proposals of phases 1 and 2 were.
C11_JudgeDecides ==
    ct.status = "done" =>
        /\ ct.judged_by = <<ct.num_models - 1>>
        /\ Len(ct.messages) >= 1
        /\ ct.result = <<[action |-> parse_player_response(ct.messages[Len(ct.messages)])]>>

\* the protocol returned the judge's action for a team of several guessers
\* although every proposal of both rounds decoded to another action
C11_Witness ==
    /\ ct.status = "done"
    /\ ct.num_models >= 2
    /\ Len(ct.result[1].action) = 1
    /\ \A p \in Proposals : Len(p[2].action) = 1 /\ p[2].action # ct.result[1].action

RECURSIVE SumSeq(_)
SumSeq(xs) == IF xs = <<>> THEN 0 ELSE Head(xs) + SumSeq(Tail(xs))

C13_FailurePropagates ==
    (ct.status = "done" /\ \E p \in Proposals : Len(p[2].action) = 0) =>
        Len(ct.result[1].action) = 0

(***************************************************************************)
(* Claims about the Environment (checked under Spec).                      *)
(***************************************************************************)
\* C1: once a word has been resolved as correct, neutral or opponent (in an
\* earlier call of any team, or earlier in the same guess list), every later
\* occurrence of it is resolved as already_guessed.
C1_ResolvedOnce ==
    \A i \in 1..Len(last.results) :
        LET w == last.results[i].word
        IN  (\/ w \in last.seen
             \/ \E j \in 1..(i - 1) : /\ last.results[j].word = w
                                      /\ last.results[j].result \in Live)
            => last.results[i].result = "already_guessed"

\* a call of one team meets a word that a call of the other team resolved
C1_Witness ==
    /\ last.op = "player"
    /\ \E i \in 1..Len(last.results), u \in DOMAIN environment.guessed_words_log :
         /\ u # last.team
         /\ last.results[i].word \in last.seen
         /\ last.results[i].result = "already_guessed"
         /\ \E k \in 1..Len(environment.guessed_words_log[u]) :
              environment.guessed_words_log[u][k].word = last.results[i].word

\* the outcome the resolution rule gives the i-th guess of the last call
C2_Expected(i) ==
    LET w == last.guesses[i]
        on_board == InList(w, environment.board)
    IN  IF InList(w, last.pre) \/ (on_board /\ \E j \in 1..(i - 1) : last.guesses[j] = w)
        THEN "already_guessed"
        ELSE IF ~on_board THEN "invalid"
        ELSE IF w \in ListSet(environment.word_sets[last.team]) THEN "correct"
        ELSE IF w \in ListSet(environment.neutral_words) THEN "neutral"
        ELSE "opponent"

\* C2: handle_player_action resolves the guesses in list order by the rule
\* already_guessed / invalid / correct / neutral / opponent, returns one
\* outcome per guess in the same order, and correct_count is the number of
\* outcomes that are correct.
C2_ResolutionRule ==
    last.op = "player" =>
        /\ Len(last.results) = Len(last.guesses)
        /\ \A i \in 1..Len(last.guesses) :
             last.results[i] = [word |-> last.guesses[i], result |-> C2_Expected(i)]
        /\ last.correct_count =
             Cardinality({i \in 1..Len(last.results) : last.results[i].result = "correct"})

\* a team word guessed twice in one list: correct, then already_guessed
C2_Witness ==
    /\ last.op = "player"
    /\ Len(last.results) = 2
    /\ last.guesses[1] = last.guesses[2]
    /\ last.results[1].result = "correct"
    /\ last.results[2].result = "already_guessed"
    /\ last.correct_count = 1
    /\ ~last.game_over

\* the teams whose word set lies entirely in the global guessed-word log
Satisfied(e) ==
    {t \in DOMAIN e.word_sets : ListSet(e.word_sets[t]) \subseteq ListSet(e.guessed_words)}

\* C3: check_win() is true iff some team's word set is entirely contained
\* in the global guessed-word log, whoever guessed the words.
C3_CheckWinIff == check_win(environment) <=> Satisfied(environment) # {}

\* a team's set completed with the help of a guess of the other team
C3_Witness ==
    /\ check_win(environment)
    /\ \E t \in Satisfied(environment), u \in DOMAIN environment.guessed_words_log :
         /\ u # t
         /\ \E k \in 1..Len(environment.guessed_words_log[u]) :
              environment.guessed_words_log[u][k].word \in ListSet(environment.word_sets[t])

\* C4: get_winner() is the lowest satisfied team id, and -1 exactly when
\* check_win() is false.
C4_LowestWinner ==
    /\ get_winner(environment) = -1 <=> ~check_win(environment)
    /\ Satisfied(environment) # {} =>
         /\ get_winner(environment) \in Satisfied(environment)
         /\ \A t \in Satisfied(environment) : get_winner(environment) <= t

\* both teams are satisfied in the same state and team 1 is reported
C4_Witness ==
    /\ Satisfied(environment) = {1, 2}
    /\ get_winner(environment) = 1

(***************************************************************************)
(* The views of the game state                                             *)
(***************************************************************************)
\* the game states that differ from e in the assignment of the unguessed
\* words only: the same board and logs, the word sets and the neutral list
\* of another outcome of the second shuffle that places every guessed word
\* as e does
Reassigned(e) ==
    {[e EXCEPT !.word_sets = s.word_sets, !.neutral_words = s.neutral_words] :
       s \in {x \in {setup_board(e.teams, e.max_words, e.board,
                                 [i \in 1..Len(e.board) |-> i], p2) :
                       p2 \in AllShuffles(Len(e.board))} :
                /\ DOMAIN x.word_sets = DOMAIN e.word_sets
                /\ \A w \in ListSet(e.guessed_words) :
                     /\ InList(w, x.neutral_words) <=> InList(w, e.neutral_words)
                     /\ \A t \in DOMAIN e.word_sets :
                          InList(w, x.word_sets[t]) <=> InList(w, e.word_sets[t])}}

\* C21: the player view of a team holds the unguessed board words and that
\* team's guess log and nothing else, and it is the same in every game state
\* that differs only in the assignment of the unguessed words to the teams
\* and the neutral list; so is the guesser's view the orchestrator builds
\* from it.
C21_PlayerViewHidesAssignment ==
    \A t \in 1..environment.teams :
      LET view == env_get_player_state(environment, t)
      IN  /\ DOMAIN view = {"board", "guessed_words_log"}
          /\ ListSet(view.board) = ListSet(environment.board) \ ListSet(environment.guessed_words)
          /\ view.guessed_words_log = environment.guessed_words_log[t]
          /\ \A v \in Reassigned(environment) :
               /\ env_get_player_state(v, t) = view
               /\ get_player_state(v) = get_player_state(environment)

\* a game with guessed words and another assignment of the unguessed ones
C21_Witness ==
    /\ last.op = "player"
    /\ environment.guessed_words # <<>>
    /\ Len(environment.guessed_words) < Len(environment.board)
    /\ \E v \in Reassigned(environment) : v.word_sets # environment.word_sets

(***************************************************************************)
(* Setup from a word list                                                  *)
(***************************************************************************)
\* C22: a setup that completes has a board of the configured size and team
\* word sets of the team allocation size each (a word list with fewer words
\* than that makes the setup fail instead).
C22_SetupRequiresEnoughWords ==
    last.op = "setup" =>
      /\ Len(environment.board) = environment.max_words
      /\ \A t \in DOMAIN environment.word_sets :
           Len(environment.word_sets[t]) = TeamSize

\* the word list has no repeated word, fills the board, and the board has
\* the words for every team's word set
SufficientPool ==
    /\ NoRepeats(last.word_list)
    /\ Len(last.word_list) >= environment.max_words
    /\ environment.max_words >= environment.teams * TeamSize

\* C23: after a setup from a sufficient word list every team 1..teams has a
\* word set of the team allocation size made of board words, and the neutral
\* list is exactly the board words in no team's word set.
C23_EveryTeamHasWordSet ==
    (last.op = "setup" /\ SufficientPool) =>
      /\ DOMAIN environment.word_sets = 1..environment.teams
      /\ \A t \in DOMAIN environment.word_sets :
           /\ Len(environment.word_sets[t]) = TeamSize
           /\ ListSet(environment.word_sets[t]) \subseteq ListSet(environment.board)
      /\ ListSet(environment.neutral_words) =
           ListSet(environment.board)
             \ UNION {ListSet(environment.word_sets[t]) : t \in DOMAIN environment.word_sets}

\* the same for games of one or two teams
C23_UpToTwoTeams == environment.teams <= 2 => C23_EveryTeamHasWordSet

(***************************************************************************)
(* Failed agent calls                                                      *)
(***************************************************************************)
\* the texts a query returns for a request that timed out or failed
Sentinels == {query(Timeout), query(RequestError)}

\* C24: an agent whose request times out or fails returns the sentinel text
\* with no action; a turn whose hinter or guesser returned a sentinel text
\* does not raise and ends with a turn record that has success = false, the
\* decode failure as error, the sentinel as the raw text and no action, and
\* the game state is not changed by the failed role.
C24_TimeoutIsDecodeFailure ==
    /\ \A r \in {Timeout, RequestError} :
         /\ generate_master(r) = [action |-> <<>>, raw |-> query(r)]
         /\ generate_player_action(query(r)) = [action |-> <<>>, raw |-> query(r)]
         /\ IsTok(query(r)[1], "Error:") \/ IsTok(query(r)[1], "Error")
    /\ (step_ret.called /\ step_ret.stage = "master_parse"
          /\ step_count \in DOMAIN orchestration_log
          /\ TurnRecord.master_response \in Sentinels) =>
         /\ ~step_ret.raised
         /\ TurnRecord.success = FALSE
         /\ TurnRecord.error = "Failed to parse master response"
         /\ TurnRecord.master_action = <<>>
         /\ environment = Before
    /\ (step_ret.called /\ step_ret.stage = "player_parse"
          /\ step_count \in DOMAIN orchestration_log
          /\ TurnRecord.player_response \in Sentinels) =>
         /\ ~step_ret.raised
         /\ TurnRecord.success = FALSE
         /\ TurnRecord.error = "Failed to parse player response"
         /\ TurnRecord.player_action = <<>>
         /\ GuessLogsUnchanged
    /\ \A k \in DOMAIN orchestration_log :
         (orchestration_log[k].master_response \in Sentinels
            \/ orchestration_log[k].player_response \in Sentinels)
           => orchestration_log[k].success = FALSE

\* a turn whose hinter decoded and whose guesser's request timed out
C24_Witness ==
    /\ Returned
    /\ step_ret.stage = "player_parse"
    /\ TurnRecord.player_response = query(Timeout)
    /\ Len(TurnRecord.master_action) = 1
    /\ TurnRecord.success = FALSE

(***************************************************************************)
(* SpecCodec: the two parsers applied to response texts.                   *)
(***************************************************************************)
Keywords == {<<"HINT:", "NUMBER:">>, <<"hint:", "number:">>, <<"Hint:", "Number:">>}
QuoteStyles == {<<>>, <<Tok("\"")>>, <<Tok("'")>>}
NumStr(n) == CASE n = 0 -> "0" [] n = 1 -> "1" [] OTHER -> "2"
HintNumbers == {0, 1, 2}

\* the line the hinter is asked to answer with: HINT: <word> NUMBER: <n>
hint_text(word, n, quote, kw) ==
    <<Tok(kw[1])>> \o quote \o <<Tok(word)>> \o quote \o <<Tok(kw[2]), Tok(NumStr(n))>>

\* the answer as the whole response, in a result block, or in a result
\* block after prose (which may hold another hint and another object)
Wraps == {"full", "prose", "block", "prose_block"}
Wrap(wrap, body) ==
    CASE wrap = "full" -> body
      [] wrap = "prose" -> <<Tok("so")>> \o body \o <<Tok("ok")>>
      [] wrap = "block" -> <<Tok("<RESULT>")>> \o body \o <<Tok("</RESULT>")>>
      [] OTHER -> <<Tok("HINT:"), Tok("zz"), Tok("NUMBER:"), Tok("2"),
                    Json(<<"zz">>), Tok("<result>")>>
                    \o body \o <<Tok("</result>"), Tok("ok")>>

HintInputs ==
    {[NoDecode EXCEPT !.shape = "hint", !.hint_word = w, !.hint_number = n,
                      !.text = Wrap(wrap, hint_text(w, n, q, kw))] :
       w \in HintWords, n \in HintNumbers, q \in QuoteStyles, kw \in Keywords,
       wrap \in Wraps}

\* texts without the pattern: prose, a number that is no number, two words,
\* no number, a closed result block without a hint after a hint, a sentinel
NoHintTexts ==
    {<<Tok("no"), Tok("hint"), Tok("here")>>,
     <<Tok("HINT:"), Tok("a"), Tok("NUMBER:"), Tok("two")>>,
     <<Tok("HINT:"), Tok("a"), Tok("b"), Tok("NUMBER:"), Tok("1")>>,
     <<Tok("HINT:"), Tok("a")>>,
     <<Tok("HINT:"), Tok("a"), Tok("NUMBER:"), Tok("1"),
       Tok("<RESULT>"), Tok("none"), Tok("</RESULT>")>>,
     <<>>,
     query(Timeout)}
NoHintInputs == {[NoDecode EXCEPT !.shape = "no_hint", !.text = x] : x \in NoHintTexts}

\* a JSON object with the guesses gs: without and with a nested member
GuessObjects == {"flat", "nested"}
guess_text(gs, object) == IF object = "flat" THEN <<Json(gs)>> ELSE <<JsonNested(gs)>>
CodecGuessLists == UNION {[1..n -> Words] : n \in 0..MaxGuesses}

GuessInputs ==
    {[NoDecode EXCEPT !.shape = "guess_" \o object, !.guesses = gs,
                      !.text = Wrap(wrap, guess_text(gs, object))] :
       gs \in CodecGuessLists, object \in GuessObjects, wrap \in Wraps}

\* texts no object can be parsed from
NoGuessTexts ==
    {<<Tok("no"), Tok("json")>>,
     <<Tok("so"), JsonBroken>>,
     <<JsonBroken>>,
     <<Tok("<RESULT>"), Tok("none"), Tok("</RESULT>")>>,
     <<>>,
     query(RequestError)}
NoGuessInputs == {[NoDecode EXCEPT !.shape = "no_guess", !.text = x] : x \in NoGuessTexts}

InitCodec ==
    /\ decoded \in HintInputs \cup NoHintInputs \cup GuessInputs \cup NoGuessInputs
    /\ environment = BlankEnvironment(1, 5)
    /\ last = NoCall
    /\ resolved = {}
    /\ step_count = 0
    /\ orchestration_log = <<>>
    /\ reward_log = <<>>
    /\ step_ret = NoStep
    /\ episode = NoEpisode
    /\ reward_module = [config |-> DefaultRewardConfig,
                        table |-> RewardModule(DefaultRewardConfig)]
    /\ CTIdle

\* _parse_master_response(text)
ParseMaster ==
    /\ decoded.op = "none"
    /\ decoded' = [decoded EXCEPT !.op = "master",
                                  !.out = parse_master_response(decoded.text)]
    /\ UNCHANGED <<environment, last, resolved, step_count, orchestration_log,
                   reward_log, step_ret, ct, episode, reward_module>>

\* _parse_player_response(text)
ParsePlayer ==
    /\ decoded.op = "none"
    /\ decoded' = [decoded EXCEPT !.op = "player",
                                  !.out = parse_player_response(decoded.text)]
    /\ UNCHANGED <<environment, last, resolved, step_count, orchestration_log,
                   reward_log, step_ret, ct, episode, reward_module>>

NextCodec == ParseMaster \/ ParsePlayer

SpecCodec == InitCodec /\ [][NextCodec]_vars

C26_GuessDecode ==
    decoded.op = "player" =>
      /\ decoded.shape \in {"guess_flat", "guess_nested"} =>
           decoded.out = <<[guesses |-> decoded.guesses]>>
      /\ decoded.shape = "no_guess" => decoded.out = <<>>

\* the same for the objects without a brace inside them
C26_FlatObjects ==
    (decoded.op = "player" /\ decoded.shape # "guess_nested") => C26_GuessDecode

(***************************************************************************)
(* The order of a turn (checked under SpecOrch).                           *)
(***************************************************************************)
\* the positions of the events of one kind in the step() call that ended last
EventsOf(call) == {i \in 1..Len(step_ret.events) : step_ret.events[i].call = call}

\* the hinter is queried at most once and before anything else; the guesser
\* is queried only after the hint was decoded and then recorded; the guesses
\* are applied only after they were decoded
TurnOrder ==
    /\ Cardinality(EventsOf("master_query")) <= 1
    /\ step_ret.events # <<>> => step_ret.events[1].call = "master_query"
    /\ Cardinality(EventsOf("player_query")) <= 1
    /\ \A i \in EventsOf("player_query") :
         \E j \in EventsOf("master_parse"), k \in EventsOf("handle_master_action") :
           j < k /\ k < i
    /\ \A i \in EventsOf("handle_player_action") :
         \E j \in EventsOf("player_query"), k \in EventsOf("player_parse") :
           j < k /\ k < i

\* the turn record is written and the turn scored once, as the last two
\* things the turn does
ScoredLast ==
    /\ EventsOf("record") = {Len(step_ret.events) - 1}
    /\ EventsOf("score") = {Len(step_ret.events)}
    /\ step_count \in DOMAIN orchestration_log
    /\ step_count \in DOMAIN reward_log

\* C27: every turn keeps the order hinter query, hint decoded and recorded,
\* guesser query, guesses decoded and applied, and ends, on the success path
\* and on every failure path, with the turn record written and the turn
\* scored exactly once.
C27_TurnOrder == step_ret.called => (TurnOrder /\ ScoredLast)

\* the same for the step() calls that return
C27_ReturnedTurns == Returned => (TurnOrder /\ ScoredLast)

(***************************************************************************)
(* The views built in a turn (checked under SpecOrch).                     *)
(***************************************************************************)
\* C28: in a turn whose hint was decoded and recorded the guesser's view is
\* built and holds the word and the number of that hint and the board words
\* not guessed before the turn.
C28_GuesserSeesHint ==
    (Returned /\ EventsOf("handle_master_action") # {}) =>
      /\ Len(TurnRecord.player_prompt) = 1
      /\ TurnRecord.player_prompt[1].hint_word = TurnRecord.master_action[1].hint_word
      /\ TurnRecord.player_prompt[1].hint_number = TurnRecord.master_action[1].hint_number
      /\ TurnRecord.player_prompt[1].board =
           FilterOut(Before.board, ListSet(Before.guessed_words))

\* the view that is built holds the remaining board, whatever its hint
C28_ViewHasRemainingBoard ==
    (Returned /\ Len(TurnRecord.player_prompt) = 1) =>
      TurnRecord.player_prompt[1].board =
        FilterOut(Before.board, ListSet(Before.guessed_words))

\* the hinter's view in the turn record of the step() call that ended last
MasterView == TurnRecord.master_prompt[1]

\* no word of another team's word set is in the hinter's view
NoOpponentIdentity ==
    \A t \in DOMAIN Before.word_sets \ {MasterView.team} :
      \A w \in ListSet(Before.word_sets[t]) :
        /\ ~InList(w, MasterView.team_words)
        /\ ~InList(w, MasterView.opponent_words)
        /\ ~InList(w, MasterView.neutral_words)

\* C29: the hinter's view built for a turn lists as team words exactly the
\* words of the team's word set that are not in the guessed-word log, and it
\* holds no word of an opponent's word set.
C29_HinterSeesRemainingWords ==
    (Returned /\ Len(TurnRecord.master_prompt) = 1) =>
      /\ MasterView.team_words =
           FilterOut(Before.word_sets[MasterView.team], ListSet(Before.guessed_words))
      /\ NoOpponentIdentity

\* the part about the opponents' words
C29_NoOpponentIdentity ==
    (Returned /\ Len(TurnRecord.master_prompt) = 1) => NoOpponentIdentity

(***************************************************************************)
(* The consensus protocol under the interleavings of its calls (SpecCT).   *)
(***************************************************************************)
\* the text the model call of node v answered, the prompt it was given
OutputOf(v) == (CHOOSE o \in ct.outputs : o[1] = v)[2]
GivenTo(v) == (CHOOSE p \in ct.prompts : p[1] = v)[2]

\* every stored result of a round is the text its own guesser answered in
\* that round, with the action decoded from it
OwnResults(responses, round) ==
    /\ \A p, q \in responses : p[1] = q[1] => p = q
    /\ \A p \in responses :
         /\ <<(<<round, p[1]>>), p[2].raw>> \in ct.outputs
         /\ p[2] = generate_player_action(p[2].raw)

\* C30: whatever the order in which the calls of a phase return, every
\* guesser index has exactly one stored result per phase, its own; the
\* phase-2 prompts and the judge's prompt list the texts in ascending guesser
\* index; and the final action is the one decoded from the judge's text: the
\* outcome is a function of the guessers' texts alone.
C30_OrderIndependent ==
    /\ OwnResults(ct.round_1_responses, "r1")
    /\ OwnResults(ct.round_2_responses, "r2")
    /\ \A o, p \in ct.outputs : o[1] = p[1] => o = p
    /\ \A i \in Models(ct.num_models) :
         model_r2(i) \in Keys(ct.prompts) =>
           /\ Keys(ct.round_1_responses) = Models(ct.num_models)
           /\ GivenTo(model_r2(i))[1].raw = OutputOf(model_r1(i))
           /\ \A k \in 2..Len(GivenTo(model_r2(i))) :
                /\ GivenTo(model_r2(i))[k].raw =
                     OutputOf(model_r1(GivenTo(model_r2(i))[k].number - 1))
                /\ k > 2 => GivenTo(model_r2(i))[k - 1].number
                              < GivenTo(model_r2(i))[k].number
           /\ {GivenTo(model_r2(i))[k].number - 1 : k \in 2..Len(GivenTo(model_r2(i)))}
                = Models(ct.num_models) \ {i}
    /\ judge \in Keys(ct.prompts) =>
         /\ Keys(ct.round_2_responses) = Models(ct.num_models)
         /\ GivenTo(judge) =
              [k \in 1..ct.num_models |->
                 [label |-> "Proposal", number |-> k, raw |-> OutputOf(model_r2(k - 1))]]
    /\ ct.status = "done" =>
         /\ Cardinality(ct.round_1_responses) = ct.num_models
         /\ Cardinality(ct.round_2_responses) = ct.num_models
         /\ ct.result = <<[action |-> parse_player_response(OutputOf(judge))]>>

\* a run of two guessers that ended although in both phases the second
\* guesser's call returned before the first's, with another text
C30_Witness ==
    /\ ct.status = "done"
    /\ ct.num_models >= 2
    /\ CompletedOf(ct, "r1")[1] = 1
    /\ CompletedOf(ct, "r2")[1] = 1
    /\ OutputOf(model_r1(0)) # OutputOf(model_r1(1))
    /\ OutputOf(model_r2(0)) # OutputOf(model_r2(1))

\* the teammate entries of the prompt given to the round-2 node of guesser i
TeammatesOf(i) == Tail(GivenTo(model_r2(i)))

\* C31: the phase-2 input of guesser i holds guesser i's own phase-1 text as
\* its previous proposal and, labelled with the teammate number, the phase-1
\* text of every other guesser exactly once; its own text is not listed as a
\* teammate's, and the state a phase-2 node reads holds no phase-2 text.
C31_Phase2Input ==
    /\ \A i \in Models(ct.num_models) :
         model_r2(i) \in Keys(ct.prompts) =>
           /\ GivenTo(model_r2(i))[1] =
                [label |-> "previous_thought", number |-> i + 1,
                 raw |-> OutputOf(model_r1(i))]
           /\ Len(TeammatesOf(i)) = ct.num_models - 1
           /\ \A j \in Models(ct.num_models) \ {i} :
                \E k \in 1..Len(TeammatesOf(i)) :
                  TeammatesOf(i)[k] = [label |-> "Teammate", number |-> j + 1,
                                       raw |-> OutputOf(model_r1(j))]
           /\ \A k \in 1..Len(TeammatesOf(i)) : TeammatesOf(i)[k].number # i + 1
    /\ \A v \in Started : v[1] = "r2" => ct.round_2_responses = {}

\* the second guesser's phase-2 call was given the first guesser's phase-1
\* text, another text than its own
C31_Witness ==
    /\ ct.num_models >= 2
    /\ model_r2(1) \in Keys(ct.prompts)
    /\ model_r2(1) \in ct.finished
    /\ OutputOf(model_r1(0)) # OutputOf(model_r1(1))
    /\ TeammatesOf(1)[1].raw = OutputOf(model_r1(0))

\* C32: in phase 1 every guesser is given the initial prompt execute() was
\* called with and nothing else, the same for all of them, whatever the
\* other guessers have answered by then: the phase-1 input of a guesser is a
\* function of the initial prompt alone.
C32_Phase1Independent ==
    /\ \A i \in Models(ct.num_models) :
         model_r1(i) \in Keys(ct.prompts) =>
           GivenTo(model_r1(i)) =
             <<[label |-> "initial_prompt", number |-> 0, raw |-> ct.initial_prompt]>>
    /\ \A p, q \in ct.prompts : (p[1][1] = "r1" /\ q[1][1] = "r1") => p[2] = q[2]
    /\ \A v \in Started : v[1] = "r1" => ct.round_1_responses = {}

\* the second guesser's phase-1 call was started after the first guesser's
\* phase-1 call had returned its text
C32_Witness ==
    /\ ct.num_models >= 2
    /\ CompletedOf(ct, "r1") = <<0>>
    /\ model_r1(1) \in ct.running
    /\ model_r1(1) \in Keys(ct.prompts)
    /\ model_r1(0) \in Keys(ct.outputs)

\* ---------------------------------------------------------------------
\* The guess logs, the win condition and the frame of each operation
\* ---------------------------------------------------------------------

IsPrefix(xs, ys) == Len(xs) <= Len(ys) /\ \A i \in 1..Len(xs) : ys[i] = xs[i]

\* the entries of a result list that were applied (correct, neutral or
\* opponent), in order, and their words
Applied(results) == SelectSeq(results, LAMBDA r : r.result \in Live)
AppliedWords(results) == [i \in 1..Len(Applied(results)) |-> Applied(results)[i].word]

\* C33: the guess logs are append-only: across every operation (hint, guess
\* list, win check, winner query, snapshot) the global guessed-word log and
\* every per-team log of the earlier state are prefixes of those of the
\* later state.
C33_LogsAppendOnly ==
    [][/\ IsPrefix(environment.guessed_words, environment'.guessed_words)
       /\ DOMAIN environment'.guessed_words_log = DOMAIN environment.guessed_words_log
       /\ \A t \in DOMAIN environment.guessed_words_log :
            IsPrefix(environment.guessed_words_log[t], environment'.guessed_words_log[t])]_vars

\* a guess list has extended a team's log that already held an entry, and
\* the global log that already held words
C33_Witness ==
    /\ last.op = "player"
    /\ last.pre # <<>>
    /\ Len(environment.guessed_words) > Len(last.pre)
    /\ Len(environment.guessed_words_log[last.team]) > Len(Applied(last.results))
    /\ Applied(last.results) # <<>>

\* the outcome a word has for the team that guesses it
OutcomeFor(e, t, w) ==
    IF t \in DOMAIN e.word_sets /\ InList(w, e.word_sets[t]) THEN "correct"
    ELSE IF InList(w, e.neutral_words) THEN "neutral"
    ELSE "opponent"

\* the positions of the per-team logs
LogPositions(e) ==
    UNION {{<<t, i>> : i \in 1..Len(e.guessed_words_log[t])} :
             t \in DOMAIN e.guessed_words_log}

\* C34: the global guessed-word log holds board words only and none twice;
\* each of its words is in exactly one entry of exactly one per-team log,
\* with the outcome the word has for that team (correct, neutral or
\* opponent); the per-team logs hold nothing else, and the length of the
\* global log is the total number of per-team entries.
C34_LogsConsistent ==
    /\ ListSet(environment.guessed_words) \subseteq ListSet(environment.board)
    /\ NoRepeats(environment.guessed_words)
    /\ \A w \in ListSet(environment.guessed_words) :
         Cardinality({p \in LogPositions(environment) :
                        environment.guessed_words_log[p[1]][p[2]].word = w}) = 1
    /\ \A p \in LogPositions(environment) :
         LET entry == environment.guessed_words_log[p[1]][p[2]]
         IN  /\ entry.word \in ListSet(environment.guessed_words)
             /\ entry.result \in Live
             /\ entry.result = OutcomeFor(environment, p[1], entry.word)
    /\ Len(environment.guessed_words)
         = SumSeq([t \in 1..environment.teams |-> Len(environment.guessed_words_log[t])])
    /\ last.op = "player" =>
         \A k \in 1..Len(Applied(last.results)) :
           \E i \in 1..Len(environment.guessed_words_log[last.team]) :
             environment.guessed_words_log[last.team][i] = Applied(last.results)[k]

\* both teams have entries in their logs, one of them for a word of the
\* other team, and a guess list with a repeated and an off-board word has
\* been applied
C34_Witness ==
    /\ environment.teams = 2
    /\ environment.guessed_words_log[1] # <<>>
    /\ environment.guessed_words_log[2] # <<>>
    /\ \E i \in 1..Len(environment.guessed_words_log[2]) :
         environment.guessed_words_log[2][i].result = "opponent"
    /\ last.op = "player"
    /\ \E i \in 1..Len(last.results) : last.results[i].result \in {"invalid", "already_guessed"}

\* C35: once get_winner() has returned a team id, it returns that id in
\* every later state.
C35_WinnerIsFinal ==
    [][get_winner(environment) # -1 =>
         get_winner(environment') = get_winner(environment)]_vars

\* C36: once check_win() is true it is true in every later state.
C36_WinIsMonotone ==
    [][check_win(environment) => check_win(environment')]_vars

\* a guess list has been applied to a game that was already won, and has
\* added words to the log
C36_Witness ==
    /\ last.op = "player"
    /\ check_win([environment EXCEPT !.guessed_words = last.pre])
    /\ Len(environment.guessed_words) > Len(last.pre)
    /\ check_win(environment)

\* C37: handle_player_action resolves every word of the guess list, in
\* order, and applies each one that is on the board and not yet guessed:
\* neither the hint number nor a win reached inside the list stops it, and
\* game_over of the result is check_win() after the last word.
C37_WholeListApplied ==
    last.op = "player" =>
      /\ Len(last.results) = Len(last.guesses)
      /\ \A i \in 1..Len(last.guesses) : last.results[i].word = last.guesses[i]
      /\ environment.guessed_words = last.pre \o AppliedWords(last.results)
      /\ \A i \in 1..Len(last.guesses) :
           (/\ last.guesses[i] \in ListSet(environment.board)
            /\ last.guesses[i] \notin ListSet(last.pre)
            /\ \A j \in 1..(i - 1) : last.guesses[j] # last.guesses[i])
             => last.results[i].result \in Live
      /\ last.game_over = check_win(environment)

\* a guess list has applied more words than the recorded hint number, and
\* its first word won the game before the second was applied
C37_Witness ==
    /\ last.op = "player"
    /\ environment.current_hint # <<>>
    /\ Len(AppliedWords(last.results)) = 2
    /\ Len(AppliedWords(last.results)) > environment.current_hint[1].number
    /\ ~check_win([environment EXCEPT !.guessed_words = last.pre])
    /\ check_win([environment EXCEPT
                    !.guessed_words = Append(last.pre, AppliedWords(last.results)[1])])
    /\ last.game_over

\* C38: a guess resolved as invalid or already_guessed is appended to no
\* log: a guess list extends the global log and the guessing team's log by
\* its applied entries only, and a list with no applied entry (or an empty
\* one) leaves the whole game state, and so check_win(), unchanged.
C38_RejectedGuessesChangeNothing ==
    [][last'.op = "player" =>
         /\ environment'.guessed_words
              = environment.guessed_words \o AppliedWords(last'.results)
         /\ environment'.guessed_words_log[last'.team]
              = environment.guessed_words_log[last'.team] \o Applied(last'.results)
         /\ Applied(last'.results) = <<>> =>
              /\ environment' = environment
              /\ check_win(environment') = check_win(environment)]_vars

\* a guess list of an already guessed word and a word that is not on the
\* board has been resolved
C38_Witness ==
    /\ last.op = "player"
    /\ Len(last.results) = 2
    /\ \E i \in 1..2 : last.results[i].result = "invalid"
    /\ \E i \in 1..2 : last.results[i].result = "already_guessed"
    /\ environment.guessed_words = last.pre

\* C39: handle_master_action succeeds for every hint word and number, makes
\* it the current hint in place of the previous one, and leaves the board,
\* the word sets, the neutral set and all guess logs unchanged.
C39_HintIsNoGate ==
    [][last'.op = "master" =>
         /\ last'.ret[1].success
         /\ last'.ret[1].hint
              = <<[word |-> last'.hint[1].hint_word, number |-> last'.hint[1].hint_number]>>
         /\ environment' = [environment EXCEPT !.current_hint = last'.ret[1].hint]]_vars

\* a hint whose word is on the board, with the number 0, has replaced
\* another hint
C39_Witness ==
    /\ last.op = "master"
    /\ last.hint[1].hint_word \in ListSet(environment.board)
    /\ last.hint[1].hint_number = 0
    /\ environment.current_hint[1].word = last.hint[1].hint_word
    /\ environment.guessed_words # <<>>

\* C40: no operation after setup changes the board, a team's word set or
\* the neutral set, and the board keeps the configured number of words.
C40_BoardIsFixed ==
    [][/\ environment'.board = environment.board
       /\ environment'.word_sets = environment.word_sets
       /\ environment'.neutral_words = environment.neutral_words
       /\ environment'.max_words = environment.max_words
       /\ Len(environment'.board) = environment'.max_words]_vars

\* a snapshot has been taken of a game with a hint and applied guesses of
\* both teams, the board still at its configured size
C40_Witness ==
    /\ last.op = "snapshot"
    /\ environment.teams = 2
    /\ environment.current_hint # <<>>
    /\ environment.guessed_words_log[1] # <<>>
    /\ environment.guessed_words_log[2] # <<>>
    /\ Len(environment.board) = environment.max_words
    /\ last.ret[1].board = environment.board

=============================================================================
